---- MODULE Spec2Model ----
(***************************************************************************)
(* Verification model of the dispersion core of                            *)
(* functions/run-dispersion-prediction/index.ts.                           *)
(*                                                                         *)
(* JavaScript numbers are IEEE-754 doubles.  They are modelled by a binary *)
(* floating-point format with the same structure and a shorter mantissa:   *)
(* a value is NaN, +Infinity, -Infinity, or m * 2^e with m = 0 or          *)
(* 2^14 <= |m| < 2^15 (15 significant bits instead of 53, results rounded  *)
(* toward zero; the exponent is not bounded except in Math.exp/Math.pow,   *)
(* which overflow and underflow where the double does).  Zero is unsigned. *)
(***************************************************************************)
EXTENDS Integers, Naturals, Sequences, FiniteSets, TLC

\* ------------------------------------------------------------------------
\* JavaScript number values
\*
\* Every operation is a function applied to its arguments, so that an
\* argument is evaluated once, and an operator of the same name without the
\* suffix F that applies it.
\* ------------------------------------------------------------------------
Num == [k : {"fin", "nan", "inf", "ninf", "undef"}, m : Int, e : Int]

NaN == [k |-> "nan", m |-> 0, e |-> 0]

PInf == [k |-> "inf", m |-> 0, e |-> 0]

NInf == [k |-> "ninf", m |-> 0, e |-> 0]

Zero == [k |-> "fin", m |-> 0, e |-> 0]

Abs(i) == IF i < 0 THEN -i ELSE i

Sgn(i) == IF i < 0 THEN -1 ELSE IF i > 0 THEN 1 ELSE 0

\* number of significant bits of a positive integer below 2^31
BitLen(a) == CHOOSE n \in 1..31 : a \div (2 ^ (n - 1)) = 1

\* the number m * 2^e, rounded toward zero to 15 significant bits
NormF[m \in Int, e \in Int] ==
  IF m = 0 THEN Zero
  ELSE LET n == BitLen(Abs(m))
       IN IF n > 15
          THEN [k |-> "fin", m |-> Sgn(m) * (Abs(m) \div (2 ^ (n - 15))), e |-> e + (n - 15)]
          ELSE [k |-> "fin", m |-> m * (2 ^ (15 - n)), e |-> e - (15 - n)]

Norm(m, e) == NormF[m, e]

FromInt(i) == NormF[i, 0]

IsNaN(a) == a.k = "nan"

IsFin(a) == a.k = "fin"

\* sign of a number: -1, 0, 1 (0 for NaN)
SignF[a \in Num] ==
  CASE a.k = "inf" -> 1
    [] a.k = "ninf" -> -1
    [] a.k = "nan" -> 0
    [] OTHER -> Sgn(a.m)

Sign(a) == SignF[a]

NegF[a \in Num] ==
  CASE a.k = "inf" -> NInf
    [] a.k = "ninf" -> PInf
    [] a.k = "nan" -> NaN
    [] OTHER -> [a EXCEPT !.m = -a.m]

Neg(a) == NegF[a]

\* a + b
AddF[a \in Num, b \in Num] ==
  CASE IsNaN(a) \/ IsNaN(b) -> NaN
    [] a.k = "inf" -> IF b.k = "ninf" THEN NaN ELSE PInf
    [] a.k = "ninf" -> IF b.k = "inf" THEN NaN ELSE NInf
    [] b.k # "fin" -> b
    [] a.m = 0 -> b
    [] b.m = 0 -> a
    [] a.e >= b.e -> IF a.e - b.e > 15 THEN a ELSE Norm(a.m * (2 ^ (a.e - b.e)) + b.m, b.e)
    [] OTHER -> IF b.e - a.e > 15 THEN b ELSE Norm(b.m * (2 ^ (b.e - a.e)) + a.m, a.e)

Add(a, b) == AddF[a, b]

Sub(a, b) == AddF[a, Neg(b)]

\* a * b
MulF[a \in Num, b \in Num] ==
  CASE IsNaN(a) \/ IsNaN(b) -> NaN
    [] a.k # "fin" /\ Sign(b) = 0 -> NaN
    [] b.k # "fin" /\ Sign(a) = 0 -> NaN
    [] a.k # "fin" \/ b.k # "fin" -> IF Sign(a) * Sign(b) > 0 THEN PInf ELSE NInf
    [] OTHER -> Norm(a.m * b.m, a.e + b.e)

Mul(a, b) == MulF[a, b]

\* a / b (a zero divisor counts as +0)
DivF[a \in Num, b \in Num] ==
  CASE IsNaN(a) \/ IsNaN(b) -> NaN
    [] a.k # "fin" /\ b.k # "fin" -> NaN
    [] a.k # "fin" -> IF Sign(a) * (IF b.m < 0 THEN -1 ELSE 1) > 0 THEN PInf ELSE NInf
    [] b.k # "fin" -> Zero
    [] b.m = 0 -> IF a.m = 0 THEN NaN ELSE IF a.m > 0 THEN PInf ELSE NInf
    [] OTHER -> Norm(Sgn(a.m) * Sgn(b.m) * ((Abs(a.m) * 32768) \div Abs(b.m)), a.e - b.e - 15)

Div(a, b) == DivF[a, b]

\* a < b, a <= b, a >= b, a > b (false when either side is NaN)
LtF[a \in Num, b \in Num] ==
  CASE IsNaN(a) \/ IsNaN(b) -> FALSE
    [] a = b -> FALSE
    [] OTHER -> Sign(Sub(a, b)) < 0

Lt(a, b) == LtF[a, b]

LeF[a \in Num, b \in Num] == ~IsNaN(a) /\ ~IsNaN(b) /\ (a = b \/ Lt(a, b))

Le(a, b) == LeF[a, b]

Ge(a, b) == LeF[b, a]

Gt(a, b) == LtF[b, a]

\* Math.max(a, b)
MaxF[a \in Num, b \in Num] == IF IsNaN(a) \/ IsNaN(b) THEN NaN ELSE IF Lt(a, b) THEN b ELSE a

Max(a, b) == MaxF[a, b]

\* the decimal literal n / d
Dec(n, d) == DivF[FromInt(n), FromInt(d)]

\* ------------------------------------------------------------------------
\* Math.pow, Math.exp, Math.cos, Math.sin and the % operator
\* ------------------------------------------------------------------------

\* the fraction of log2(y / 2^14), in n bits, for 2^14 <= y < 2^15
LogFrac[y \in Int, n \in Nat] ==
  IF n = 0 THEN 0
  ELSE IF (y * y) \div 16384 >= 32768
       THEN 2 ^ (n - 1) + LogFrac[((y * y) \div 16384) \div 2, n - 1]
       ELSE LogFrac[(y * y) \div 16384, n - 1]

\* log2(a) for a finite a > 0
Log2F[a \in Num] == Norm((a.e + 14) * 4096 + LogFrac[a.m, 12], -12)

Log2(a) == Log2F[a]

\* 2^(2^-i) * 2^14 for i = 1..12
ExpTable == <<23170, 19484, 17867, 17109, 16743, 16562, 16473, 16428, 16406, 16395, 16390, 16387>>

\* y * 2^(f / 4096) over the bits i..12 of f
ExpFrac[f \in Nat, i \in Nat, y \in Int] ==
  IF i > 12 THEN y
  ELSE IF (f \div (2 ^ (12 - i))) % 2 = 1
       THEN ExpFrac[f, i + 1, (y * ExpTable[i] + 8192) \div 16384]
       ELSE ExpFrac[f, i + 1, y]

\* floor(a * 2^12) for a finite a with |a| < 2^12
Floor12F[a \in Num] ==
  IF a.e + 12 >= 0 THEN a.m * (2 ^ (a.e + 12))
  ELSE IF a.e + 12 < -30 THEN (IF a.m < 0 THEN -1 ELSE 0)
  ELSE a.m \div (2 ^ (-(a.e + 12)))

\* 2^(q / 4096) for an integer q
Exp2Scaled[q \in Int] ==
  IF q \div 4096 >= 1024 THEN PInf
  ELSE IF q \div 4096 < -1075 THEN Zero
  ELSE Norm(ExpFrac[q % 4096, 1, 16384], (q \div 4096) - 14)

\* 2^t; overflows to Infinity and underflows to 0 where the double does
Exp2F[t \in Num] ==
  CASE t.k = "nan" -> NaN
    [] t.k = "inf" -> PInf
    [] t.k = "ninf" -> Zero
    [] t.m = 0 -> FromInt(1)
    [] t.e + 15 > 11 -> IF t.m > 0 THEN PInf ELSE Zero
    [] OTHER -> Exp2Scaled[Floor12F[t]]

Exp2(t) == Exp2F[t]

Log2E == Dec(144269504, 100000000)

\* Math.exp(z)
Exp(z) == Exp2F[Mul(z, Log2E)]

\* Math.pow(x, y); the exponents of this program other than 1 and 2 are
\* finite non-integers, for which a negative base gives NaN
PowF[x \in Num, y \in Num] ==
  CASE IsNaN(y) -> NaN
    [] Sign(y) = 0 -> FromInt(1)
    [] IsNaN(x) -> NaN
    [] y = FromInt(1) -> x
    [] y = FromInt(2) -> Mul(x, x)
    [] x.k = "inf" \/ x.k = "ninf" -> IF Sign(y) > 0 THEN PInf ELSE Zero
    [] Sign(x) = 0 -> IF Sign(y) > 0 THEN Zero ELSE PInf
    [] Sign(x) < 0 -> NaN
    [] OTHER -> Exp2(Mul(y, Log2(x)))

Pow(x, y) == PowF[x, y]

\* the integer part of a finite a, toward zero
TruncF[a \in Num] ==
  IF a.e >= 0 THEN a.m * (2 ^ a.e)
  ELSE IF a.e < -30 THEN 0
  ELSE Sgn(a.m) * (Abs(a.m) \div (2 ^ (-a.e)))

Trunc(a) == TruncF[a]

\* a % b: the remainder has the sign of the dividend
RemF[a \in Num, b \in Num] ==
  CASE IsNaN(a) \/ IsNaN(b) -> NaN
    [] a.k # "fin" -> NaN
    [] b.k # "fin" -> a
    [] b.m = 0 -> NaN
    [] OTHER -> Sub(a, Mul(FromInt(Trunc(Div(a, b))), b))

Rem(a, b) == RemF[a, b]

Pi == Dec(314159265, 100000000)

HalfPi == Dec(157079633, 100000000)

\* the nearest integer to a finite t, halves away from zero
RoundF[t \in Num] == Trunc(IF Sign(t) < 0 THEN Sub(t, Dec(1, 2)) ELSE Add(t, Dec(1, 2)))

\* x = n * (pi/2) + r with |r| <= pi/4 : the quadrant n and the rest r
Quadrant(x) == RoundF[Div(x, HalfPi)]

ReducedF[x \in Num] == Sub(x, Mul(FromInt(Quadrant(x)), HalfPi))

\* sine and cosine of a reduced argument, by their Taylor polynomials
SinPolyF[r \in Num] ==
  Add(Sub(r, Div(Mul(Mul(r, r), r), FromInt(6))),
      Sub(Div(Mul(Mul(Mul(Mul(r, r), r), r), r), FromInt(120)),
          Div(Mul(Mul(Mul(Mul(Mul(Mul(r, r), r), r), r), r), r), FromInt(5040))))

CosPolyF[r \in Num] ==
  Add(Sub(FromInt(1), Div(Mul(r, r), FromInt(2))),
      Sub(Div(Mul(Mul(Mul(r, r), r), r), FromInt(24)),
          Div(Mul(Mul(Mul(Mul(Mul(r, r), r), r), r), r), FromInt(720))))

\* Math.cos(x)
CosF[x \in Num] ==
  IF ~IsFin(x) THEN NaN
  ELSE CASE Quadrant(x) % 4 = 0 -> CosPolyF[ReducedF[x]]
         [] Quadrant(x) % 4 = 1 -> Neg(SinPolyF[ReducedF[x]])
         [] Quadrant(x) % 4 = 2 -> Neg(CosPolyF[ReducedF[x]])
         [] OTHER -> SinPolyF[ReducedF[x]]

Cos(x) == CosF[x]

\* Math.sin(x)
SinF[x \in Num] ==
  IF ~IsFin(x) THEN NaN
  ELSE CASE Quadrant(x) % 4 = 0 -> SinPolyF[ReducedF[x]]
         [] Quadrant(x) % 4 = 1 -> CosPolyF[ReducedF[x]]
         [] Quadrant(x) % 4 = 2 -> Neg(SinPolyF[ReducedF[x]])
         [] OTHER -> Neg(CosPolyF[ReducedF[x]])

Sin(x) == SinF[x]

\* ------------------------------------------------------------------------
\* Strings: the stability class strings of the model and their UTF-16 codes
\* ------------------------------------------------------------------------
ClassCodes ==
  [s \in {"A", "B", "C", "D", "E", "F", "G", "Z", "a", "@", "", "D2"} |->
     CASE s = "A" -> <<65>>
       [] s = "B" -> <<66>>
       [] s = "C" -> <<67>>
       [] s = "D" -> <<68>>
       [] s = "E" -> <<69>>
       [] s = "F" -> <<70>>
       [] s = "G" -> <<71>>
       [] s = "Z" -> <<90>>
       [] s = "a" -> <<97>>
       [] s = "@" -> <<64>>
       [] s = "D2" -> <<68, 50>>
       [] OTHER -> <<>>]

ClassStrings == DOMAIN ClassCodes

\* s.charCodeAt(0): NaN for the empty string
charCodeAt0(s) == IF ClassCodes[s] = <<>> THEN NaN ELSE FromInt(ClassCodes[s][1])

\* comparison of two code sequences as JavaScript compares strings
RECURSIVE CodesLe(_, _)
CodesLe(u, v) ==
  IF u = <<>> THEN TRUE
  ELSE IF v = <<>> THEN FALSE
  ELSE IF u[1] # v[1] THEN u[1] < v[1]
  ELSE CodesLe(Tail(u), Tail(v))

\* s <= t on strings
StrLe(s, t) == CodesLe(ClassCodes[s], ClassCodes[t])

\* ------------------------------------------------------------------------
\* Constants (index.ts lines 54-67)
\* ------------------------------------------------------------------------
EARTH_RADIUS_METERS == 6371000

MAX_DOWNWIND_DISTANCE_METERS == 20000

DISTANCE_STEP_METERS == 100

CONCENTRATION_THRESHOLD == Dec(1, 10000000)

MIN_SIGMA_Y == 1

MIN_SIGMA_Z == 1

DEFAULT_STACK_HEIGHT == 10

DEFAULT_STACK_DIAMETER == 1

DEFAULT_EXIT_VELOCITY == 10

DEFAULT_EXIT_TEMP_OFFSET == 20

\* ------------------------------------------------------------------------
\* Gaussian plume helper functions
\* ------------------------------------------------------------------------

\* a variant: the first boundary taken as closed
estimatePasquillStability_ClosedAt2(windSpeed) ==
  IF Le(windSpeed, FromInt(2)) THEN "A"
  ELSE IF Lt(windSpeed, FromInt(3)) THEN "B"
  ELSE IF Lt(windSpeed, FromInt(5)) THEN "C"
  ELSE "D"

\* a variant: calm wind classified as stable
estimatePasquillStability_StableCalm(windSpeed) ==
  IF Lt(windSpeed, FromInt(2)) THEN "E"
  ELSE IF Lt(windSpeed, FromInt(3)) THEN "B"
  ELSE IF Lt(windSpeed, FromInt(5)) THEN "C"
  ELSE "D"

estimatePasquillStability(windSpeed) ==
  IF Lt(windSpeed, FromInt(2)) THEN "A"
  ELSE IF Lt(windSpeed, FromInt(3)) THEN "B"
  ELSE IF Lt(windSpeed, FromInt(5)) THEN "C"
  ELSE IF Lt(windSpeed, FromInt(6)) THEN "D"
  ELSE "D"

a_y == <<Dec(22, 100), Dec(16, 100), Dec(11, 100), Dec(8, 100), Dec(6, 100), Dec(4, 100)>>

b_y == <<Dec(89, 100), Dec(89, 100), Dec(89, 100), Dec(89, 100), Dec(89, 100), Dec(89, 100)>>

a_z == <<Dec(20, 100), Dec(12, 100), Dec(8, 100), Dec(6, 100), Dec(3, 100), Dec(16, 1000)>>

b_z == <<FromInt(1), FromInt(1), Dec(7, 10), Dec(7, 10), Dec(7, 10), Dec(7, 10)>>

\* a variant: an index beyond the table takes the last row
classRow_Clamped(stabilityClass) ==
  LET classIndex == Sub(charCodeAt0(stabilityClass), charCodeAt0("A"))
  IN IF Ge(classIndex, Zero) /\ Lt(classIndex, FromInt(Len(a_y)))
     THEN Trunc(classIndex) + 1
     ELSE IF Ge(classIndex, FromInt(Len(a_y))) THEN Len(a_y) ELSE 4

\* the table row used for a class: its own when the index is in range,
\* else the row of class D
classRow(stabilityClass) ==
  LET classIndex == Sub(charCodeAt0(stabilityClass), charCodeAt0("A"))
  IN IF Ge(classIndex, Zero) /\ Lt(classIndex, FromInt(Len(a_y)))
     THEN Trunc(classIndex) + 1
     ELSE 4

\* a variant: no floor on the coefficients
sigmaFloor_None(sigma, minSigma) == sigma

\* the floor applied to the computed coefficients
sigmaFloor(sigma, minSigma) == Max(sigma, FromInt(minSigma))

\* the values getDispersionCoefficients returns
Coefficients == [sigmaY : Num, sigmaZ : Num]

getDispersionCoefficients(stabilityClass, x_meters) ==
  LET x_km == Div(x_meters, FromInt(1000))
      i == classRow(stabilityClass)
  IN IF Le(x_km, Zero)
     THEN [sigmaY |-> FromInt(MIN_SIGMA_Y), sigmaZ |-> FromInt(MIN_SIGMA_Z)]
     ELSE [sigmaY |-> sigmaFloor(Mul(Mul(a_y[i], Pow(x_km, b_y[i])), FromInt(1000)), MIN_SIGMA_Y),
           sigmaZ |-> sigmaFloor(Mul(Mul(a_z[i], Pow(x_km, b_z[i])), FromInt(1000)), MIN_SIGMA_Z)]

\* the values metersToDeltaLonLat returns
Deltas == [deltaLon : Num, deltaLat : Num]

metersToDeltaLonLat(dx_meters, dy_meters, latitude) ==
  LET latRadians == Mul(latitude, Div(Pi, FromInt(180)))
      R == FromInt(EARTH_RADIUS_METERS)
  IN [deltaLon |-> Mul(Div(dx_meters, Mul(R, Cos(latRadians))), Div(FromInt(180), Pi)),
      deltaLat |-> Mul(Div(dy_meters, R), Div(FromInt(180), Pi))]

\* a variant: the wind speed used as given
windSpeedAtStack_Raw(windSpeed) == windSpeed

\* wind speed used at the stack: never below 0.1
windSpeedAtStack(windSpeed) == Max(windSpeed, Dec(1, 10))

\* buoyancy flux parameter F
buoyancyFluxF(stackDiameter, exitVelocity, exitTemperatureKelvin, ambientTemperatureKelvin) ==
  Mul(Mul(Mul(Dec(981, 100), exitVelocity), Pow(Div(stackDiameter, FromInt(2)), FromInt(2))),
      Sub(FromInt(1), Div(ambientTemperatureKelvin, exitTemperatureKelvin)))

\* a variant: the branch for F <= 0 missing
briggsDeltaH_NoZeroBranch(F, wsa, stabilityClass) ==
  IF StrLe(stabilityClass, "D")
  THEN Mul(IF Ge(F, FromInt(55))
           THEN Div(Mul(Dec(3871, 100), Pow(F, Div(FromInt(3), FromInt(5)))), wsa)
           ELSE Div(Mul(Dec(21425, 1000), Pow(F, Div(FromInt(3), FromInt(4)))), wsa),
           Dec(15, 10))
  ELSE LET stabilityParam_s == IF stabilityClass = "E" THEN Dec(5, 10000) ELSE Dec(15, 10000)
       IN Mul(Mul(Dec(26, 10), Pow(Div(F, Mul(wsa, stabilityParam_s)), Div(FromInt(1), FromInt(3)))),
              Dec(15, 10))

\* a variant: the formula for a large buoyancy flux used for every flux
briggsDeltaH_LargeOnly(F, wsa, stabilityClass) ==
  IF Le(F, Zero) THEN Zero
  ELSE IF StrLe(stabilityClass, "D")
       THEN Mul(Div(Mul(Dec(3871, 100), Pow(F, Div(FromInt(3), FromInt(5)))), wsa), Dec(15, 10))
       ELSE LET stabilityParam_s == IF stabilityClass = "E" THEN Dec(5, 10000) ELSE Dec(15, 10000)
            IN Mul(Mul(Dec(26, 10), Pow(Div(F, Mul(wsa, stabilityParam_s)), Div(FromInt(1), FromInt(3)))),
                   Dec(15, 10))

\* plume rise before the final clamp
briggsDeltaH(F, wsa, stabilityClass) ==
  IF Le(F, Zero) THEN Zero
  ELSE IF StrLe(stabilityClass, "D")
       THEN Mul(IF Ge(F, FromInt(55))
                THEN Div(Mul(Dec(3871, 100), Pow(F, Div(FromInt(3), FromInt(5)))), wsa)
                ELSE Div(Mul(Dec(21425, 1000), Pow(F, Div(FromInt(3), FromInt(4)))), wsa),
                Dec(15, 10))
       ELSE LET stabilityParam_s == IF stabilityClass = "E" THEN Dec(5, 10000) ELSE Dec(15, 10000)
            IN Mul(Mul(Dec(26, 10), Pow(Div(F, Mul(wsa, stabilityParam_s)), Div(FromInt(1), FromInt(3)))),
                   Dec(15, 10))

calculateBriggsPlumeRise(stackDiameter, exitVelocity, exitTemperatureKelvin, ambientTemperatureKelvin, windSpeed, stabilityClass) ==
  Max(Zero, briggsDeltaH(buoyancyFluxF(stackDiameter, exitVelocity, exitTemperatureKelvin,
                                       ambientTemperatureKelvin),
                         windSpeedAtStack(windSpeed), stabilityClass))

\* ------------------------------------------------------------------------
\* calculateGaussianPlumePolygon as a state machine
\* ------------------------------------------------------------------------
VARIABLES
  pc,                       \* position in calculateGaussianPlumePolygon
  args,                     \* the arguments of the call
  stabilityClass, Q, cosWind, sinWind,
  exitTemperatureKelvin, ambientTemperatureKelvin,
  plumeRiseDeltaH, effectiveHeightH,
  x, maxDistanceReached, plumePointsRight, plumePointsLeft,
  sigma, concentration,     \* the coefficients and the concentration of the last sample
  ret,                      \* the returned polygon, <<>> before the return
  err,                      \* the message of the thrown Error, "" if none
  briggsCalls,              \* number of calls of calculateBriggsPlumeRise
  iterations,               \* number of executions of the loop body
  loopExit,                 \* how the loop ended: "none", "break", "bound"
  call,                     \* the last direct call of a helper function
  done,                     \* the outcomes of the earlier calls of calculateGaussianPlumePolygon
  nCalls,                   \* number of calls of calculateGaussianPlumePolygon started
  fn,                       \* the edge function that serves the request
  hpc,                      \* position in the serve handler
  req,                      \* the HTTP request
  envSet,                   \* whether the environment variables the handler reads are set
  resp,                     \* the Response returned by the handler
  effects,                  \* what the handler has read or called so far, in order
  chemicalRow,              \* the handler's local chemical
  weatherData,              \* the handler's local weatherData
  upstream,                 \* the last answer of an upstream service
  served,                   \* the predictions of the earlier requests
  nRequests                 \* number of requests received

locals == <<stabilityClass, Q, cosWind, sinWind, exitTemperatureKelvin, ambientTemperatureKelvin>>

rise == <<plumeRiseDeltaH, effectiveHeightH, briggsCalls>>

loop == <<x, maxDistanceReached, plumePointsRight, plumePointsLeft, sigma, concentration,
          iterations, loopExit>>

\* the state of the serve handlers
handler == <<fn, hpc, req, envSet, resp, effects, chemicalRow, weatherData, upstream, served, nRequests>>

\* everything outside one call of calculateGaussianPlumePolygon
outer == <<done, nCalls, handler>>

vars == <<pc, args, locals, rise, loop, ret, err, call, outer>>

\* a local that has not been assigned yet
Undef == [k |-> "undef", m |-> 0, e |-> 0]

NoCall == [fn |-> "none", args |-> <<>>, result |-> <<>>]

\* no request, no response, no value yet
None == [t |-> "none"]

\* no request is being served
HandlerIdle ==
  /\ fn = "none" /\ hpc = "idle" /\ req = None /\ envSet = TRUE
  /\ resp = None /\ effects = <<>>
  /\ chemicalRow = None /\ weatherData = None /\ upstream = None
  /\ served = {} /\ nRequests = 0

\* --- the inputs of the model -------------------------------------------
MaxSpeedHalves == 14

BaseWeather ==
  [windSpeed |-> Dec(447, 100), windDirection |-> FromInt(270), temperature |-> FromInt(65),
   humidity |-> FromInt(50), timestamp |-> "2025-04-16T07:31:59Z"]

BaseChemical ==
  [id |-> 1, name |-> "Ammonia Gas", volatility_level |-> FromInt(8), solubility_level |-> FromInt(9),
   description |-> "Colorless gas with a pungent smell", hazard_type |-> "Toxic"]

BaseArgs ==
  [latitude |-> Dec(398283, 10000), longitude |-> Dec(-985795, 10000),
   weather |-> BaseWeather, chemical |-> BaseChemical,
   stackHeight |-> FromInt(DEFAULT_STACK_HEIGHT), stackDiameter |-> FromInt(DEFAULT_STACK_DIAMETER),
   exitVelocity |-> FromInt(DEFAULT_EXIT_VELOCITY), exitTempOffset |-> FromInt(DEFAULT_EXIT_TEMP_OFFSET)]

NonFinite == {NaN, PInf, NInf}

\* a call whose plume ends well before the maximum distance
ShortArgs == [BaseArgs EXCEPT !.weather.windSpeed = Dec(3, 2), !.chemical.volatility_level = FromInt(1)]

\* wind speeds 0, 0.5, 1, ... m/s
CoreArgs ==
  {[BaseArgs EXCEPT !.weather.windSpeed = Dec(i, 2), !.chemical.volatility_level = FromInt(1)] :
      i \in 0..MaxSpeedHalves}

\* a call with one argument replaced by an unusual value
EdgeArgs ==
  {BaseArgs, [BaseArgs EXCEPT !.stackDiameter = PInf]}
  \cup {[ShortArgs EXCEPT !.weather.windSpeed = w] : w \in NonFinite \cup {FromInt(-3)}}
  \cup {[ShortArgs EXCEPT !.weather.windDirection = d] :
          d \in {NaN, FromInt(0), FromInt(90), FromInt(300), FromInt(360)}}
  \cup {[ShortArgs EXCEPT !.weather.temperature = t] : t \in NonFinite \cup {FromInt(-40)}}
  \cup {[ShortArgs EXCEPT !.chemical.volatility_level = v] : v \in {Zero, NaN, FromInt(3)}}
  \cup {[ShortArgs EXCEPT !.stackHeight = h] : h \in {NaN, PInf, Zero, FromInt(50)}}
  \cup {[ShortArgs EXCEPT !.stackDiameter = d] : d \in NonFinite \cup {Zero, FromInt(2)}}
  \cup {[ShortArgs EXCEPT !.exitVelocity = v] : v \in NonFinite \cup {Zero, FromInt(-10)}}
  \cup {[ShortArgs EXCEPT !.exitTempOffset = o] : o \in NonFinite \cup {Zero, FromInt(-50)}}
  \cup {[ShortArgs EXCEPT !.exitTempOffset = FromInt(-50), !.exitVelocity = FromInt(-10)]}
  \cup {[ShortArgs EXCEPT !.weather.temperature = PInf, !.exitTempOffset = NInf]}
  \cup {[ShortArgs EXCEPT !.latitude = Zero, !.longitude = Zero]}
  \cup {[ShortArgs EXCEPT !.latitude = Dec(-338688, 10000), !.longitude = Dec(1512093, 10000)]}
  \cup {[ShortArgs EXCEPT !.latitude = NaN]}

Inputs == CoreArgs \cup EdgeArgs

\* --- lines 204-228: locals and validation --------------------------------

\* chemical.volatility_level || 1
volatilityOrOne(volatility_level) ==
  IF IsNaN(volatility_level) \/ Sign(volatility_level) = 0 THEN FromInt(1) ELSE volatility_level

emissionRateQ(volatility_level, stackHeight, stackDiameter) ==
  LET emissionFactor == Mul(Max(FromInt(1), Div(stackHeight, FromInt(10))), Max(FromInt(1), stackDiameter))
  IN Mul(volatilityOrOne(volatility_level), emissionFactor)

\* a variant: the solubility level added to the volatility level
emissionRateOf_Soluble(chemical, stackHeight, stackDiameter) ==
  emissionRateQ(Add(chemical.volatility_level, chemical.solubility_level), stackHeight, stackDiameter)

\* Q from the chemical record (lines 208-209)
emissionRateOf(chemical, stackHeight, stackDiameter) ==
  emissionRateQ(chemical.volatility_level, stackHeight, stackDiameter)

\* a variant: the remainder taken with the mathematical modulus
windAngleDegrees_Modulus(windDirection) ==
  LET r == Rem(Sub(FromInt(270), windDirection), FromInt(360))
  IN IF IsFin(r) /\ Sign(r) < 0 THEN Add(r, FromInt(360)) ELSE r

\* the rotation angle in degrees, before the conversion to radians
windAngleDegrees(windDirection) == Rem(Sub(FromInt(270), windDirection), FromInt(360))

windAngleRadians(windDirection) == Mul(windAngleDegrees(windDirection), Div(Pi, FromInt(180)))

ambientTempCelsius(temperature) == Div(Mul(Sub(temperature, FromInt(32)), FromInt(5)), FromInt(9))

exitKelvin(temperature, exitTempOffset) ==
  Add(Add(ambientTempCelsius(temperature), exitTempOffset), Dec(27315, 100))

ambientKelvin(temperature) == Add(ambientTempCelsius(temperature), Dec(27315, 100))

\* the validation of the plume rise inputs (line 225)
invalidPlumeRiseInput(stackDiameter, exitVelocity, exitK, ambientK, windSpeed) ==
  IsNaN(stackDiameter) \/ IsNaN(exitVelocity) \/ IsNaN(exitK) \/ IsNaN(ambientK) \/ IsNaN(windSpeed)

\* the state at the call with one of the given arguments
InitWith(inputs) ==
  /\ pc = "entry"
  /\ args \in inputs
  /\ stabilityClass = ""
  /\ Q = Undef /\ cosWind = Undef /\ sinWind = Undef
  /\ exitTemperatureKelvin = Undef /\ ambientTemperatureKelvin = Undef
  /\ plumeRiseDeltaH = Undef /\ effectiveHeightH = Undef
  /\ x = 0 /\ maxDistanceReached = 0
  /\ plumePointsRight = <<>> /\ plumePointsLeft = <<>>
  /\ sigma = [sigmaY |-> Undef, sigmaZ |-> Undef] /\ concentration = Undef
  /\ ret = <<>> /\ err = ""
  /\ briggsCalls = 0 /\ iterations = 0 /\ loopExit = "none"
  /\ call = NoCall
  /\ done = {} /\ nCalls = 1
  /\ HandlerIdle

Init == InitWith(Inputs)

Prologue ==
  /\ pc = "entry"
  /\ stabilityClass' = estimatePasquillStability(args.weather.windSpeed)
  /\ Q' = emissionRateOf(args.chemical, args.stackHeight, args.stackDiameter)
  /\ cosWind' = Cos(windAngleRadians(args.weather.windDirection))
  /\ sinWind' = Sin(windAngleRadians(args.weather.windDirection))
  /\ exitTemperatureKelvin' = exitKelvin(args.weather.temperature, args.exitTempOffset)
  /\ ambientTemperatureKelvin' = ambientKelvin(args.weather.temperature)
  /\ IF invalidPlumeRiseInput(args.stackDiameter, args.exitVelocity, exitTemperatureKelvin',
                              ambientTemperatureKelvin', args.weather.windSpeed)
     THEN pc' = "thrown" /\ err' = "Invalid numeric input for plume rise calculation."
     ELSE pc' = "rise" /\ err' = err
  /\ UNCHANGED <<args, rise, loop, ret, call, outer>>

\* --- lines 231-245: plume rise -------------------------------------------
effectiveHeight(stackHeight, deltaH) == Add(stackHeight, deltaH)

\* a variant: the edge lists shared by all calls
freshPoints_Shared(previous) == previous

\* the edge lists created by a call (lines 243-244)
freshPoints(previous) == <<>>

PlumeRise ==
  /\ pc = "rise"
  /\ plumeRiseDeltaH' = calculateBriggsPlumeRise(args.stackDiameter, args.exitVelocity,
                           exitTemperatureKelvin, ambientTemperatureKelvin,
                           args.weather.windSpeed, stabilityClass)
  /\ briggsCalls' = briggsCalls + 1
  /\ effectiveHeightH' = effectiveHeight(args.stackHeight, plumeRiseDeltaH')
  /\ plumePointsRight' = freshPoints(plumePointsRight)
  /\ plumePointsLeft' = freshPoints(plumePointsLeft)
  /\ maxDistanceReached' = 0
  /\ x' = 0
  /\ pc' = "loop"
  /\ UNCHANGED <<args, locals, sigma, concentration, iterations, loopExit, ret, err, call, outer>>

\* --- lines 248-267: the sampling loop ------------------------------------
centerlineConcentration(q, sigmaY, sigmaZ, windSpeed, H) ==
  LET concentrationFactor == Div(q, Mul(Mul(Mul(Pi, sigmaY), sigmaZ), Max(windSpeed, Dec(1, 10))))
      heightFactor == IF Gt(sigmaZ, Zero)
                      THEN Exp(Div(Neg(Mul(H, H)), Mul(Mul(FromInt(2), sigmaZ), sigmaZ)))
                      ELSE Zero
  IN Mul(concentrationFactor, heightFactor)

\* the concentration computed for the sample at distance xx (lines 249-254)
concentrationFor[s \in Coefficients, q \in Num, windSpeed \in Num, H \in Num] ==
  centerlineConcentration(q, s.sigmaY, s.sigmaZ, windSpeed, H)

sampleConcentration(cls, q, windSpeed, H, xx) ==
  concentrationFor[getDispersionCoefficients(cls, FromInt(xx)), q, windSpeed, H]

\* a variant: one sample too many
loopCondition_OffByOne(xx) == xx <= MAX_DOWNWIND_DISTANCE_METERS + DISTANCE_STEP_METERS

\* the loop condition (line 248)
loopCondition(xx) == xx <= MAX_DOWNWIND_DISTANCE_METERS

\* a variant: the break taken at the source too
breakCondition_AlsoAtSource(c, xx) == Lt(c, CONCENTRATION_THRESHOLD)

\* the break condition (line 257)
breakCondition(c, xx) == Lt(c, CONCENTRATION_THRESHOLD) /\ xx > 0

\* a variant: the distance of the rejected sample recorded as the extent
extentOnBreak_Current(xx) == xx

\* the extent recorded on a break (line 258)
extentOnBreak(xx) == xx - DISTANCE_STEP_METERS

plumeHalfWidth(sigmaY) == Mul(sigmaY, FromInt(3))

\* a variant: every second distance skipped
nextDistance_Skipping(xx) == xx + 2 * DISTANCE_STEP_METERS

\* x += DISTANCE_STEP_METERS (line 248)
nextDistance(xx) == xx + DISTANCE_STEP_METERS

\* a variant: the floored wind speed written back to the weather record
recordsAfterSample_FlooredInPlace(a) ==
  [a EXCEPT !.weather.windSpeed = Max(a.weather.windSpeed, Dec(1, 10))]

\* the arguments after a sample: lines 249-266 read weather.windSpeed and
\* write to locals only
recordsAfterSample(a) == a

LoopBody ==
  /\ pc = "loop"
  /\ loopCondition(x)
  /\ iterations' = iterations + 1
  /\ sigma' = getDispersionCoefficients(stabilityClass, FromInt(x))
  /\ concentration' = centerlineConcentration(Q, sigma'.sigmaY, sigma'.sigmaZ,
                                               args.weather.windSpeed, effectiveHeightH)
  /\ IF breakCondition(concentration', x)
     THEN /\ maxDistanceReached' = extentOnBreak(x)
          /\ loopExit' = "break"
          /\ pc' = "assemble"
          /\ UNCHANGED <<x, plumePointsRight, plumePointsLeft>>
     ELSE /\ maxDistanceReached' = x
          /\ plumePointsRight' =
               Append(plumePointsRight, [x |-> FromInt(x), y |-> plumeHalfWidth(sigma'.sigmaY)])
          /\ plumePointsLeft' =
               Append(plumePointsLeft, [x |-> FromInt(x), y |-> Neg(plumeHalfWidth(sigma'.sigmaY))])
          /\ x' = nextDistance(x)
          /\ UNCHANGED <<pc, loopExit>>
  /\ args' = recordsAfterSample(args)
  /\ UNCHANGED <<locals, rise, ret, err, call, outer>>

LoopExit ==
  /\ pc = "loop"
  /\ ~loopCondition(x)
  /\ loopExit' = "bound"
  /\ pc' = "assemble"
  /\ UNCHANGED <<args, locals, rise, x, maxDistanceReached, plumePointsRight, plumePointsLeft,
                 sigma, concentration, iterations, ret, err, call, outer>>

\* --- lines 269-298: the polygon ------------------------------------------
\* a variant: the coordinates in the order latitude, longitude
sourcePoint_Swapped(longitude, latitude) == <<latitude, longitude>>

sourcePoint(longitude, latitude) == <<longitude, latitude>>

\* a local point rotated into the wind and projected (lines 272-275)
offsetPoint[longitude \in Num, latitude \in Num, d \in Deltas] ==
  <<Add(longitude, d.deltaLon), Add(latitude, d.deltaLat)>>

projectPoint(p, cw, sw, latitude, longitude) ==
  LET rotatedX == Sub(Mul(p.x, cw), Mul(p.y, sw))
      rotatedY == Add(Mul(p.x, sw), Mul(p.y, cw))
  IN offsetPoint[longitude, latitude, metersToDeltaLonLat(rotatedX, rotatedY, latitude)]

\* a variant: the left edge pushed in increasing distance
leftIndex_Forward(i, n) == i

\* the index of the left-edge sample pushed i-th (line 277)
leftIndex(i, n) == n + 1 - i

\* the points pushed at lines 270-284
assemblePoints(right, left, cw, sw, latitude, longitude) ==
  <<sourcePoint(longitude, latitude)>>
  \o [i \in 1..Len(right) |-> projectPoint(right[i], cw, sw, latitude, longitude)]
  \o [i \in 1..Len(left) |-> projectPoint(left[leftIndex(i, Len(left))], cw, sw, latitude, longitude)]
  \o <<sourcePoint(longitude, latitude)>>

\* the small default shape (lines 290-296)
fallbackShape(latitude, longitude) ==
  LET d == metersToDeltaLonLat(FromInt(10), FromInt(10), latitude)
  IN <<sourcePoint(longitude, latitude),
       <<Add(longitude, d.deltaLon), latitude>>,
       <<longitude, Add(latitude, d.deltaLat)>>,
       sourcePoint(longitude, latitude)>>

\* the validation of the assembled points (lines 287-298)
validPolygon[points \in Seq(Seq(Num)), latitude \in Num, longitude \in Num] ==
  IF Len(points) < 4 THEN fallbackShape(latitude, longitude) ELSE points

\* a variant: neither the closing point nor the validation
polygonResult_Unclosed(right, left, cw, sw, latitude, longitude) ==
  <<sourcePoint(longitude, latitude)>>
  \o [i \in 1..Len(right) |-> projectPoint(right[i], cw, sw, latitude, longitude)]
  \o [i \in 1..Len(left) |-> projectPoint(left[leftIndex(i, Len(left))], cw, sw, latitude, longitude)]

\* the value returned (lines 269-298)
polygonResult(right, left, cw, sw, latitude, longitude) ==
  validPolygon[assemblePoints(right, left, cw, sw, latitude, longitude), latitude, longitude]

Assemble ==
  /\ pc = "assemble"
  /\ ret' = polygonResult(plumePointsRight, plumePointsLeft, cosWind, sinWind, args.latitude, args.longitude)
  /\ pc' = "returned"
  /\ UNCHANGED <<args, locals, rise, loop, err, call, outer>>

Next == Prologue \/ PlumeRise \/ LoopBody \/ LoopExit \/ Assemble

Spec == Init /\ [][Next]_vars

\* the same calls, with every enabled step eventually taken: a call runs to
\* its return or its throw without ever being suspended
FairSpec == Spec /\ WF_vars(Next)

\* --- calls one after the other -------------------------------------------
MaxCalls == 2

\* a call whose loop stops at the first step beyond the source
CalmArgs == [ShortArgs EXCEPT !.weather.windSpeed = Dec(1, 2)]

\* the arguments with the fields of weather and chemical that the function
\* does not read replaced
otherLabels(a) ==
  {[a EXCEPT !.weather.humidity = FromInt(90)],
   [a EXCEPT !.weather.timestamp = "2025-04-17T00:00:00Z"],
   [a EXCEPT !.chemical.solubility_level = FromInt(2)],
   [a EXCEPT !.chemical.name = "Chlorine"],
   [a EXCEPT !.chemical.hazard_type = "Flammable"],
   [a EXCEPT !.chemical.description = ""],
   [a EXCEPT !.weather.humidity = Zero, !.weather.timestamp = "", !.chemical.solubility_level = FromInt(1),
             !.chemical.name = "", !.chemical.hazard_type = "", !.chemical.id = 2]}

CallInputs ==
  {CalmArgs, BaseArgs, [CalmArgs EXCEPT !.weather.windSpeed = NaN],
   [CalmArgs EXCEPT !.latitude = Zero, !.longitude = Zero]}
  \cup otherLabels(CalmArgs)
  \cup {ShortArgs, [ShortArgs EXCEPT !.chemical.solubility_level = FromInt(2), !.weather.humidity = FromInt(90)]}

\* what a finished call produced
outcome == [args |-> args, ret |-> ret, err |-> err, thrown |-> (pc = "thrown")]

\* the next call, made after the previous one has returned or thrown: the
\* function is synchronous, so no two calls overlap
NextCall ==
  /\ pc \in {"returned", "thrown"}
  /\ fn = "none"
  /\ nCalls < MaxCalls
  /\ done' = done \cup {outcome}
  /\ nCalls' = nCalls + 1
  /\ args' \in CallInputs
  /\ pc' = "entry"
  /\ ret' = <<>> /\ err' = ""
  /\ briggsCalls' = 0 /\ iterations' = 0 /\ loopExit' = "none"
  /\ UNCHANGED <<locals, plumeRiseDeltaH, effectiveHeightH, x, maxDistanceReached,
                 plumePointsRight, plumePointsLeft, sigma, concentration, call, handler>>

SpecCalls == InitWith(CallInputs) /\ [][Next \/ NextCall]_vars

\* ------------------------------------------------------------------------
\* The serve handlers
\* ------------------------------------------------------------------------

\* --- values of a parsed JSON body ----------------------------------------
Undefined == [t |-> "undefined", v |-> Zero, s |-> <<>>]

Null == [t |-> "null", v |-> Zero, s |-> <<>>]

NumberValue(n) == [t |-> "number", v |-> n, s |-> <<>>]

\* a text is the sequence of its words
StringValue(words) == [t |-> "string", v |-> Zero, s |-> words]

\* the number a value is converted to by isNaN and by arithmetic
ToNumber(val) ==
  CASE val.t = "number" -> val.v
    [] val.t = "null" -> Zero
    [] val.t = "string" /\ val.s = <<>> -> Zero
    [] OTHER -> NaN

\* the global isNaN(val)
isNaN(val) == IsNaN(ToNumber(val))

\* val || 0
orZero(val) ==
  IF val.t = "number" /\ ~IsNaN(val.v) /\ Sign(val.v) # 0 THEN val
  ELSE IF val.t = "string" /\ val.s # <<>> THEN val
  ELSE NumberValue(Zero)

\* --- responses --------------------------------------------------------------
\* a variant: a Response without the CORS headers
withCors_Missing(response) == [response EXCEPT !.cors = FALSE]

\* headers: corsHeaders, or { ...corsHeaders, "Content-Type": "application/json" }
withCors(response) == [response EXCEPT !.cors = TRUE]

Response(status, kind, body) ==
  withCors([t |-> "response", status |-> status, cors |-> FALSE, kind |-> kind, body |-> body])

\* new Response("ok", { headers: corsHeaders })
preflightResponse == Response(200, "ok", "ok")

errorResponse(status, message) == Response(status, "error", message)

\* what one await of an upstream call can give: a rejected promise, or a
\* response with a status and a parsed JSON body
Rejected == [t |-> "rejected", status |-> 0, json |-> None]

Answer(status, json) == [t |-> "answer", status |-> status, json |-> json]

\* response.ok
ok(answer) == answer.t = "answer" /\ answer.status >= 200 /\ answer.status <= 299

\* the variables a handler step leaves alone
client == <<fn, req, envSet, served, nRequests>>

builder == <<pc, args, locals, rise, loop, ret, err, call, done, nCalls>>

fetched == <<chemicalRow, weatherData, upstream>>

\* the handler returns the response
respond(response) == resp' = response /\ hpc' = "responded"

\* the handler did one more thing that reaches outside it
effect(name) == effects' = Append(effects, name)

\* --- run-dispersion-prediction: the serve handler (lines 301-426) ------------
MPH_TO_MPS == Dec(44704, 100000)

RunBody(latitude, longitude, chemical_id) ==
  [json |-> TRUE, latitude |-> latitude, longitude |-> longitude, chemical_id |-> chemical_id,
   stackHeight |-> Undefined, stackDiameter |-> Undefined,
   exitVelocity |-> Undefined, exitTemperatureOffset |-> Undefined]

\* the two invocation examples of lines 434-457
GoodBody ==
  RunBody(NumberValue(Dec(398283, 10000)), NumberValue(Dec(-985795, 10000)), NumberValue(FromInt(1)))

StackBody ==
  [GoodBody EXCEPT !.stackHeight = NumberValue(FromInt(20)), !.stackDiameter = NumberValue(Dec(5, 10)),
                   !.exitVelocity = NumberValue(FromInt(15)), !.exitTemperatureOffset = NumberValue(FromInt(30))]

\* a body that req.json() cannot turn into an object
NoBody == [GoodBody EXCEPT !.json = FALSE]

\* what a JSON body can carry in place of a number: nothing, null, a
\* text that is not a number
NotNumbers == {Undefined, Null, StringValue(<<"abc">>)}

RunBodies ==
  {GoodBody, StackBody, NoBody}
  \cup {[GoodBody EXCEPT !.latitude = val] : val \in NotNumbers}
  \cup {[GoodBody EXCEPT !.longitude = val] : val \in NotNumbers}
  \cup {[GoodBody EXCEPT !.chemical_id = val] : val \in NotNumbers}

RunRequests ==
  {[method |-> "OPTIONS", body |-> NoBody]} \cup {[method |-> "POST", body |-> b] : b \in RunBodies}

\* lines 330-337
invalidParameters(latitude, longitude, chemical_id) ==
  \/ latitude.t = "undefined" \/ longitude.t = "undefined" \/ chemical_id.t = "undefined"
  \/ isNaN(latitude) \/ isNaN(longitude) \/ isNaN(chemical_id)

\* what .from("chemicals").select("*").eq("id", chemical_id).single() can
\* resolve to: an error, no error and no row, or the row
LookupResults(chemical_id) ==
  {[error |-> TRUE, data |-> None], [error |-> FALSE, data |-> None]}
  \cup (IF chemical_id.t = "number" THEN {[error |-> FALSE, data |-> BaseChemical]} ELSE {})

\* a variant: only the error is tested
chemicalLookupFailed_ErrorOnly(result) == result.error

\* chemicalError || !chemical (line 353)
chemicalLookupFailed(result) == result.error \/ result.data = None

\* the observations get-weather-data can answer with, in imperial units; the
\* last one is a JSON object without windSpeed, which every arithmetic
\* operation reads as NaN
ServiceWeathers ==
  {[BaseWeather EXCEPT !.windSpeed = FromInt(10)], [BaseWeather EXCEPT !.windSpeed = FromInt(1)],
   [BaseWeather EXCEPT !.windSpeed = NaN]}

WeatherAnswers ==
  {Rejected, Answer(500, None), Answer(400, None)} \cup {Answer(200, w) : w \in ServiceWeathers}

\* a variant: the wind speed left in miles per hour
convertWindSpeed_Unconverted(weather) == weather

\* weatherData.windSpeed = weatherData.windSpeed * MPH_TO_MPS (line 380)
convertWindSpeed(weather) == [weather EXCEPT !.windSpeed = Mul(weather.windSpeed, MPH_TO_MPS)]

\* a variant: a stack parameter of the request is used when it is a number
stackParameter_Requested(requested, default) ==
  IF requested.t = "number" THEN requested.v ELSE FromInt(default)

\* the stack parameter passed to the builder (lines 390-393)
stackParameter(requested, default) == FromInt(default)

\* the arguments of the call of lines 385-394; the builder's arithmetic
\* reads a null coordinate as 0
builderArgs(body, weather, chemical) ==
  [latitude |-> ToNumber(body.latitude), longitude |-> ToNumber(body.longitude),
   weather |-> weather, chemical |-> chemical,
   stackHeight |-> stackParameter(body.stackHeight, DEFAULT_STACK_HEIGHT),
   stackDiameter |-> stackParameter(body.stackDiameter, DEFAULT_STACK_DIAMETER),
   exitVelocity |-> stackParameter(body.exitVelocity, DEFAULT_EXIT_VELOCITY),
   exitTempOffset |-> stackParameter(body.exitTemperatureOffset, DEFAULT_EXIT_TEMP_OFFSET)]

\* the instants new Date() can read
Clock == {"2025-04-16T07:31:59.000Z", "2025-04-16T07:32:00.000Z"}

\* the PredictionResult of lines 396-408
predictionResult(chemical, weather, polygon, now) ==
  [type |-> "Feature",
   properties |-> [chemical |-> chemical, weather |-> weather, timestamp |-> now,
                   model_type |-> "Simplified Gaussian Plume with Briggs Plume Rise"],
   geometry |-> [type |-> "Polygon", coordinates |-> <<polygon>>]]

\* a variant: a failure answered like a prediction
runFailure_DegradedResult(message) == Response(200, "prediction", message)

\* the catch block of lines 416-424
runFailure(message) == errorResponse(500, message)

\* lines 302-306
RunOptions ==
  /\ fn = "run-dispersion-prediction" /\ hpc = "start"
  /\ req.method = "OPTIONS"
  /\ respond(preflightResponse)
  /\ UNCHANGED <<effects, fetched, client, builder>>

\* lines 307-316
RunEnvironment ==
  /\ fn = "run-dispersion-prediction" /\ hpc = "start"
  /\ req.method # "OPTIONS"
  /\ effect("env")
  /\ IF ~envSet
     THEN respond(runFailure("SUPABASE_URL or SUPABASE_SERVICE_ROLE_KEY is not set"))
     ELSE hpc' = "parse" /\ resp' = resp
  /\ UNCHANGED <<fetched, client, builder>>

\* lines 318-344
RunValidate ==
  /\ fn = "run-dispersion-prediction" /\ hpc = "parse"
  /\ effect("body")
  /\ IF ~req.body.json
     THEN respond(runFailure("Unexpected end of JSON input"))
     ELSE IF invalidParameters(req.body.latitude, req.body.longitude, req.body.chemical_id)
     THEN respond(errorResponse(400, "Invalid parameters. Latitude, longitude, and chemical_id are required."))
     ELSE hpc' = "lookup" /\ resp' = resp
  /\ UNCHANGED <<fetched, client, builder>>

\* lines 346-356
RunLookup ==
  /\ fn = "run-dispersion-prediction" /\ hpc = "lookup"
  /\ effect("db")
  /\ \E result \in LookupResults(req.body.chemical_id) :
       /\ chemicalRow' = result.data
       /\ IF chemicalLookupFailed(result)
          THEN respond(runFailure("Chemical with ID not found"))
          ELSE hpc' = "fetch" /\ resp' = resp
  /\ UNCHANGED <<weatherData, upstream, client, builder>>

\* lines 358-375
RunFetch ==
  /\ fn = "run-dispersion-prediction" /\ hpc = "fetch"
  /\ effect("weather")
  /\ \E answer \in WeatherAnswers :
       /\ upstream' = answer
       /\ IF answer = Rejected THEN respond(runFailure("error sending request"))
          ELSE IF ~ok(answer) THEN respond(runFailure("Failed to fetch weather data"))
          ELSE hpc' = "convert" /\ resp' = resp
  /\ UNCHANGED <<chemicalRow, weatherData, client, builder>>

\* lines 377-394: the conversion and the call of the builder
RunConvert ==
  /\ fn = "run-dispersion-prediction" /\ hpc = "convert"
  /\ effects' = effects \o <<"convert", "polygon">>
  /\ weatherData' = convertWindSpeed(upstream.json)
  /\ args' = builderArgs(req.body, weatherData', chemicalRow)
  /\ pc' = "entry"
  /\ ret' = <<>> /\ err' = ""
  /\ briggsCalls' = 0 /\ iterations' = 0 /\ loopExit' = "none"
  /\ hpc' = "compute"
  /\ UNCHANGED <<resp, chemicalRow, upstream, client, locals, plumeRiseDeltaH, effectiveHeightH,
                 x, maxDistanceReached, plumePointsRight, plumePointsLeft, sigma, concentration,
                 call, done, nCalls>>

\* lines 396-424: the builder has returned or thrown
RunRespond ==
  /\ fn = "run-dispersion-prediction" /\ hpc = "compute"
  /\ pc \in {"returned", "thrown"}
  /\ IF pc = "thrown" THEN respond(runFailure(err))
     ELSE \E now \in Clock :
            respond(Response(200, "prediction", predictionResult(chemicalRow, weatherData, ret, now)))
  /\ UNCHANGED <<effects, fetched, client, builder>>

NextRun == RunOptions \/ RunEnvironment \/ RunValidate \/ RunLookup \/ RunFetch \/ RunConvert \/ RunRespond

\* --- get-weather-data: the serve handler (lines 24-91) --------------------
WeatherBody(lat, lon) == [json |-> TRUE, lat |-> lat, lon |-> lon]

GoodWeatherBody == WeatherBody(NumberValue(Dec(398283, 10000)), NumberValue(Dec(-985795, 10000)))

WeatherBodies ==
  {GoodWeatherBody, [GoodWeatherBody EXCEPT !.json = FALSE]}
  \cup {[GoodWeatherBody EXCEPT !.lat = val] : val \in NotNumbers}
  \cup {[GoodWeatherBody EXCEPT !.lon = val] : val \in NotNumbers}

WeatherRequests ==
  {[method |-> "OPTIONS", body |-> [GoodWeatherBody EXCEPT !.json = FALSE]]}
  \cup {[method |-> "POST", body |-> b] : b \in WeatherBodies}

\* a variant: only the latitude is validated
invalidCoordinates_LatOnly(lat, lon) == lat.t = "undefined" \/ isNaN(lat)

\* line 41
invalidCoordinates(lat, lon) ==
  lat.t = "undefined" \/ lon.t = "undefined" \/ isNaN(lat) \/ isNaN(lon)

\* the parts of an OpenWeatherMap answer the handler reads
OwmWind == [t |-> "object", speed |-> NumberValue(FromInt(10)), deg |-> NumberValue(FromInt(270))]

OwmMain == [t |-> "object", temp |-> NumberValue(FromInt(65)), humidity |-> NumberValue(FromInt(50))]

OwmData ==
  {[wind |-> OwmWind, main |-> OwmMain],
   [wind |-> [OwmWind EXCEPT !.speed = NumberValue(Zero), !.deg = Undefined], main |-> OwmMain],
   [wind |-> Undefined, main |-> OwmMain],
   [wind |-> OwmWind, main |-> Undefined]}

OwmAnswers == {Rejected, Answer(401, None), Answer(404, None)} \cup {Answer(200, d) : d \in OwmData}

\* object?.field || 0 (lines 66-69)
fieldOrZero(object, field) ==
  IF object.t = "object" THEN orZero(object[field]).v ELSE Zero

\* the WeatherResponse of lines 65-71
weatherResponse(data, now) ==
  [windSpeed |-> fieldOrZero(data.wind, "speed"), windDirection |-> fieldOrZero(data.wind, "deg"),
   temperature |-> fieldOrZero(data.main, "temp"), humidity |-> fieldOrZero(data.main, "humidity"),
   timestamp |-> now]

\* the catch block of lines 80-90
weatherFailure(message) == errorResponse(500, message)

\* lines 25-28
WeatherOptions ==
  /\ fn = "get-weather-data" /\ hpc = "start"
  /\ req.method = "OPTIONS"
  /\ respond(preflightResponse)
  /\ UNCHANGED <<effects, fetched, client, builder>>

\* lines 30-35
WeatherKey ==
  /\ fn = "get-weather-data" /\ hpc = "start"
  /\ req.method # "OPTIONS"
  /\ effect("env")
  /\ IF ~envSet
     THEN respond(weatherFailure("OPENWEATHER_API_KEY is not set in environment variables"))
     ELSE hpc' = "parse" /\ resp' = resp
  /\ UNCHANGED <<fetched, client, builder>>

\* lines 37-49
WeatherValidate ==
  /\ fn = "get-weather-data" /\ hpc = "parse"
  /\ effect("body")
  /\ IF ~req.body.json
     THEN respond(weatherFailure("Unexpected end of JSON input"))
     ELSE IF invalidCoordinates(req.body.lat, req.body.lon)
     THEN respond(errorResponse(400, "Invalid parameters. Latitude and longitude are required."))
     ELSE hpc' = "fetch" /\ resp' = resp
  /\ UNCHANGED <<fetched, client, builder>>

\* lines 51-79
WeatherFetch ==
  /\ fn = "get-weather-data" /\ hpc = "fetch"
  /\ effect("owm")
  /\ \E answer \in OwmAnswers :
       /\ upstream' = answer
       /\ IF answer = Rejected THEN respond(weatherFailure("error sending request"))
          ELSE IF ~ok(answer) THEN respond(weatherFailure("Weather API error"))
          ELSE \E now \in Clock : respond(Response(200, "weather", weatherResponse(answer.json, now)))
  /\ UNCHANGED <<chemicalRow, weatherData, client, builder>>

NextWeather == WeatherOptions \/ WeatherKey \/ WeatherValidate \/ WeatherFetch

\* --- get-aqi-by-city: the serve handler (part_001, lines 43-138) -----------
UnknownStation == <<"Unknown", "station">>

\* text.includes(part)
includes(text, part) ==
  \E i \in 1..(Len(text) - Len(part) + 1) : SubSeq(text, i, i + Len(part) - 1) = part

\* !val
falsy(val) ==
  \/ val.t \in {"undefined", "null"}
  \/ val.t = "string" /\ val.s = <<>>
  \/ val.t = "number" /\ (IsNaN(val.v) \/ Sign(val.v) = 0)

CityBody(city) == [json |-> TRUE, city |-> city]

CityBodies ==
  {CityBody(StringValue(<<"London">>)), CityBody(StringValue(<<"Atlantis">>)), CityBody(Undefined),
   CityBody(Null), CityBody(StringValue(<<>>)), [CityBody(Undefined) EXCEPT !.json = FALSE]}

CityRequests ==
  {[method |-> "OPTIONS", body |-> [CityBody(Undefined) EXCEPT !.json = FALSE]]}
  \cup {[method |-> "POST", body |-> b] : b \in CityBodies}

\* the WaqiCityData of lines 17-36
CityData ==
  [t |-> "object", aqi |-> 42, idx |-> 5724,
   city |-> [geo |-> <<Dec(515074, 10000), Dec(-1278, 10000)>>, name |-> "London"],
   time |-> [s |-> "2025-04-16 07:00:00"]]

\* the bodies of a 2xx answer of the WAQI API
WaqiBodies ==
  {[status |-> "ok", data |-> CityData],
   [status |-> "error", data |-> StringValue(<<"Unknown", "station">>)],
   [status |-> "error", data |-> StringValue(<<"Error:", "Unknown", "station", "Atlantis">>)],
   [status |-> "error", data |-> StringValue(<<"Invalid", "key">>)],
   [status |-> "error", data |-> CityData],
   [status |-> "nope", data |-> StringValue(<<"Over", "quota">>)],
   [status |-> "ok", data |-> StringValue(<<"Unknown", "station">>)],
   [status |-> "ok", data |-> StringValue(<<"can", "not", "connect">>)]}

WaqiAnswers == {Rejected, Answer(404, None), Answer(500, None)} \cup {Answer(200, b) : b \in WaqiBodies}

\* line 90
waqiError(body) == body.status # "ok" \/ body.data.t = "string"

\* line 91
waqiErrorMessage(body) ==
  IF body.data.t = "string" THEN body.data.s ELSE <<"Unknown", "WAQI", "API", "error">>

\* a variant: every WAQI error is answered with the error message
cityNotFound_Never(message) == FALSE

\* line 95
cityNotFound(message) == includes(message, UnknownStation)

\* lines 109-122
stationOf(cityData) ==
  [id |-> cityData.idx, name |-> cityData.city.name, latitude |-> cityData.city.geo[1],
   longitude |-> cityData.city.geo[2], value |-> cityData.aqi, lastUpdated |-> cityData.time.s]

\* lines 44-47
CityOptions ==
  /\ fn = "get-aqi-by-city" /\ hpc = "start"
  /\ req.method = "OPTIONS"
  /\ respond(preflightResponse)
  /\ UNCHANGED <<effects, fetched, client, builder>>

\* lines 49-58
CityToken ==
  /\ fn = "get-aqi-by-city" /\ hpc = "start"
  /\ req.method # "OPTIONS"
  /\ effect("env")
  /\ IF ~envSet
     THEN respond(errorResponse(500, "Server configuration error: Missing API token."))
     ELSE hpc' = "parse" /\ resp' = resp
  /\ UNCHANGED <<fetched, client, builder>>

\* lines 60-67, and the catch block of lines 131-137
CityValidate ==
  /\ fn = "get-aqi-by-city" /\ hpc = "parse"
  /\ effect("body")
  /\ IF ~req.body.json
     THEN respond(errorResponse(500, "Unexpected end of JSON input"))
     ELSE IF falsy(req.body.city)
     THEN respond(errorResponse(400, "Missing city name in request body."))
     ELSE hpc' = "fetch" /\ resp' = resp
  /\ UNCHANGED <<fetched, client, builder>>

\* lines 69-130, and the catch block of lines 131-137
CityFetch ==
  /\ fn = "get-aqi-by-city" /\ hpc = "fetch"
  /\ effect("waqi")
  /\ \E answer \in WaqiAnswers :
       /\ upstream' = answer
       /\ IF answer = Rejected THEN respond(errorResponse(500, "error sending request"))
          ELSE IF ~ok(answer) THEN respond(errorResponse(answer.status, "Failed to fetch AQI data for city"))
          ELSE IF waqiError(answer.json)
          THEN IF cityNotFound(waqiErrorMessage(answer.json))
               THEN respond(Response(200, "stations", <<>>))
               ELSE respond(errorResponse(400, waqiErrorMessage(answer.json)))
          ELSE respond(Response(200, "stations", <<stationOf(answer.json.data)>>))
  /\ UNCHANGED <<chemicalRow, weatherData, client, builder>>

NextCity == CityOptions \/ CityToken \/ CityValidate \/ CityFetch

\* --- get-hazard-sites: the serve handler (lines 45-199) ---------------------
BoundsBody(north, south, east, west) ==
  [json |-> TRUE, north |-> north, south |-> south, east |-> east, west |-> west]

GoodBounds ==
  BoundsBody(NumberValue(FromInt(52)), NumberValue(FromInt(48)), NumberValue(FromInt(3)), NumberValue(FromInt(-1)))

HazardRequests ==
  {[method |-> "OPTIONS", body |-> [GoodBounds EXCEPT !.json = FALSE]]}
  \cup {[method |-> "POST", body |-> b] :
          b \in {GoodBounds, [GoodBounds EXCEPT !.west = Undefined], [GoodBounds EXCEPT !.north = Undefined],
                 [GoodBounds EXCEPT !.south = Null], [GoodBounds EXCEPT !.json = FALSE]}}

\* line 54
missingBounds(body) ==
  body.north.t = "undefined" \/ body.south.t = "undefined" \/ body.east.t = "undefined" \/ body.west.t = "undefined"

\* first ?? second
orElse(first, second) == IF first.t \in {"undefined", "null"} THEN second ELSE first

\* object?.field
optional(object, field) == IF object.t \in {"undefined", "null"} THEN Undefined ELSE object[field]

NoTags ==
  [t |-> "object", name |-> Undefined, industrial |-> Undefined, landuse |-> Undefined,
   amenity |-> Undefined, man_made |-> Undefined, power |-> Undefined]

Point(lat, lon) == [t |-> "object", lat |-> NumberValue(lat), lon |-> NumberValue(lon)]

\* the kinds of OverpassElement of the model: a node with its own
\* coordinates, a way with a center, an element with neither, a node on the
\* prime meridian, a node that also has a center
HazardElements ==
  {[id |-> 1, lat |-> NumberValue(Dec(515, 10)), lon |-> NumberValue(Dec(-12, 100)), center |-> Undefined,
    tags |-> [NoTags EXCEPT !.name = StringValue(<<"Acme">>), !.industrial = StringValue(<<"factory">>)]],
   [id |-> 2, lat |-> Undefined, lon |-> Undefined, center |-> Point(Dec(4885, 100), Dec(235, 100)),
    tags |-> [NoTags EXCEPT !.landuse = StringValue(<<"landfill">>)]],
   [id |-> 3, lat |-> Undefined, lon |-> Undefined, center |-> Undefined,
    tags |-> [NoTags EXCEPT !.power = StringValue(<<"plant">>), !.landuse = StringValue(<<"industrial">>)]],
   [id |-> 4, lat |-> NumberValue(Dec(514779, 10000)), lon |-> NumberValue(Zero), center |-> Undefined,
    tags |-> Undefined],
   [id |-> 5, lat |-> NumberValue(FromInt(50)), lon |-> NumberValue(FromInt(2)), center |-> Point(FromInt(49), FromInt(1)),
    tags |-> [NoTags EXCEPT !.amenity = StringValue(<<"fuel">>)]]}

MaxElements == 2

\* the element lists of an answer of the Overpass API
ElementLists == UNION {[1..n -> HazardElements] : n \in 0..MaxElements}

OverpassAnswers ==
  {Rejected, Answer(429, None), Answer(500, None)} \cup {Answer(200, [elements |-> l]) : l \in ElementLists}

\* the tag is the given word
tagIs(tags, key, word) == optional(tags, key) = StringValue(<<word>>)

\* type and description of lines 138-172, the description without the name
siteKind(tags) ==
  IF ~falsy(optional(tags, "industrial"))
  THEN [type |-> <<"Industrial", "(">> \o optional(tags, "industrial").s \o <<")">>,
        description |-> <<"Industrial", "facility:">>]
  ELSE IF tagIs(tags, "landuse", "industrial")
  THEN [type |-> <<"Industrial", "Area">>, description |-> <<"Industrial", "land", "use", "area:">>]
  ELSE IF tagIs(tags, "amenity", "fuel")
  THEN [type |-> <<"Fuel", "Station/Depot">>, description |-> <<"Fuel", "storage/sales:">>]
  ELSE IF tagIs(tags, "man_made", "storage_tank")
  THEN [type |-> <<"Storage", "Tank">>, description |-> <<"Storage", "tank:">>]
  ELSE IF tagIs(tags, "power", "plant")
  THEN [type |-> <<"Power", "Plant">>, description |-> <<"Power", "generation", "plant:">>]
  ELSE IF tagIs(tags, "landuse", "landfill")
  THEN [type |-> <<"Landfill">>, description |-> <<"Waste", "disposal", "site:">>]
  ELSE IF tagIs(tags, "landuse", "quarry")
  THEN [type |-> <<"Quarry">>, description |-> <<"Extraction", "site:">>]
  ELSE IF tagIs(tags, "man_made", "wastewater_plant")
  THEN [type |-> <<"Wastewater", "Plant">>, description |-> <<"Wastewater", "treatment", "facility:">>]
  ELSE IF tagIs(tags, "power", "substation")
  THEN [type |-> <<"Power", "Substation">>, description |-> <<"Electrical", "substation:">>]
  ELSE [type |-> <<"Unknown", "Hazard">>, description |-> <<"OSM", "Feature:">>]

\* the site made of an element (lines 133-182)
siteOf(element) ==
  LET name == orElse(optional(element.tags, "name"), StringValue(<<"Unnamed", "Site">>)).s
  IN [id |-> element.id, name |-> name, type |-> siteKind(element.tags).type,
      latitude |-> orElse(element.lat, orElse(optional(element.center, "lat"), NumberValue(Zero))),
      longitude |-> orElse(element.lon, orElse(optional(element.center, "lon"), NumberValue(Zero))),
      description |-> siteKind(element.tags).description \o name]

\* val !== 0
notZero(val) == ~(val.t = "number" /\ IsFin(val.v) /\ Sign(val.v) = 0)

\* a variant: every site kept
keepSite_All(site) == TRUE

\* the filter of line 183
keepSite(site) == notZero(site.latitude) /\ notZero(site.longitude)

\* lines 133-183
hazardSites(elements) == SelectSeq([i \in 1..Len(elements) |-> siteOf(elements[i])], keepSite)

\* lines 116-126
overpassErrorMessage(status) ==
  IF status \in {429, 504} THEN "Overpass API request timed out or rate limited."
  ELSE "Failed to fetch hazard sites from Overpass"

\* lines 47-49
HazardOptions ==
  /\ fn = "get-hazard-sites" /\ hpc = "start"
  /\ req.method = "OPTIONS"
  /\ respond(preflightResponse)
  /\ UNCHANGED <<effects, fetched, client, builder>>

\* lines 51-59, and the catch block of lines 192-198
HazardValidate ==
  /\ fn = "get-hazard-sites" /\ hpc = "start"
  /\ req.method # "OPTIONS"
  /\ effect("body")
  /\ IF ~req.body.json
     THEN respond(errorResponse(500, "Unexpected end of JSON input"))
     ELSE IF missingBounds(req.body)
     THEN respond(errorResponse(400, "Missing map bounds in request body."))
     ELSE hpc' = "fetch" /\ resp' = resp
  /\ UNCHANGED <<fetched, client, builder>>

\* lines 106-191, and the catch block of lines 192-198
HazardFetch ==
  /\ fn = "get-hazard-sites" /\ hpc = "fetch"
  /\ effect("overpass")
  /\ \E answer \in OverpassAnswers :
       /\ upstream' = answer
       /\ IF answer = Rejected THEN respond(errorResponse(500, "error sending request"))
          ELSE IF ~ok(answer) THEN respond(errorResponse(answer.status, overpassErrorMessage(answer.status)))
          ELSE respond(Response(200, "sites", hazardSites(answer.json.elements)))
  /\ UNCHANGED <<chemicalRow, weatherData, client, builder>>

NextHazard == HazardOptions \/ HazardValidate \/ HazardFetch

\* --- the requests, one after the other ----------------------------------------
MaxRequests == 2

Functions == {"run-dispersion-prediction", "get-weather-data", "get-aqi-by-city", "get-hazard-sites"}

Requests(f) ==
  CASE f = "run-dispersion-prediction" -> RunRequests
    [] f = "get-weather-data" -> WeatherRequests
    [] f = "get-hazard-sites" -> HazardRequests
    [] OTHER -> CityRequests

\* no call of the builder is running and none has run
BuilderIdle ==
  /\ pc = "idle"
  /\ args = BaseArgs
  /\ stabilityClass = ""
  /\ Q = Undef /\ cosWind = Undef /\ sinWind = Undef
  /\ exitTemperatureKelvin = Undef /\ ambientTemperatureKelvin = Undef
  /\ plumeRiseDeltaH = Undef /\ effectiveHeightH = Undef
  /\ x = 0 /\ maxDistanceReached = 0
  /\ plumePointsRight = <<>> /\ plumePointsLeft = <<>>
  /\ sigma = [sigmaY |-> Undef, sigmaZ |-> Undef] /\ concentration = Undef
  /\ ret = <<>> /\ err = ""
  /\ briggsCalls = 0 /\ iterations = 0 /\ loopExit = "none"

\* a request reaches one of the functions; the environment variables of the
\* function are set or not
InitServe ==
  /\ BuilderIdle
  /\ call = NoCall /\ done = {} /\ nCalls = 0
  /\ fn \in Functions
  /\ req \in Requests(fn)
  /\ envSet \in BOOLEAN
  /\ hpc = "start"
  /\ resp = None /\ effects = <<>>
  /\ chemicalRow = None /\ weatherData = None /\ upstream = None
  /\ served = {} /\ nRequests = 1

\* what a request answered with a prediction was about, and its polygon
servedPrediction ==
  [latitude |-> req.body.latitude, longitude |-> req.body.longitude, chemical_id |-> req.body.chemical_id,
   stack |-> <<req.body.stackHeight, req.body.stackDiameter, req.body.exitVelocity, req.body.exitTemperatureOffset>>,
   chemical |-> chemicalRow, observation |-> upstream.json, polygon |-> ret]

\* the next request, after the response to the previous one; the locals of
\* the finished invocation are gone
NextRequest ==
  /\ hpc = "responded"
  /\ nRequests < MaxRequests
  /\ served' = IF resp.kind = "prediction" THEN served \cup {servedPrediction} ELSE served
  /\ nRequests' = nRequests + 1
  /\ fn' \in Functions
  /\ req' \in Requests(fn')
  /\ envSet' \in BOOLEAN
  /\ hpc' = "start"
  /\ resp' = None /\ effects' = <<>>
  /\ chemicalRow' = None /\ weatherData' = None /\ upstream' = None
  /\ pc' = "idle"
  /\ args' = BaseArgs
  /\ stabilityClass' = ""
  /\ Q' = Undef /\ cosWind' = Undef /\ sinWind' = Undef
  /\ exitTemperatureKelvin' = Undef /\ ambientTemperatureKelvin' = Undef
  /\ plumeRiseDeltaH' = Undef /\ effectiveHeightH' = Undef
  /\ x' = 0 /\ maxDistanceReached' = 0
  /\ plumePointsRight' = <<>> /\ plumePointsLeft' = <<>>
  /\ sigma' = [sigmaY |-> Undef, sigmaZ |-> Undef] /\ concentration' = Undef
  /\ ret' = <<>> /\ err' = ""
  /\ briggsCalls' = 0 /\ iterations' = 0 /\ loopExit' = "none"
  /\ UNCHANGED <<call, done, nCalls>>

SpecServe == InitServe /\ [][Next \/ NextRun \/ NextWeather \/ NextCity \/ NextHazard \/ NextRequest]_vars

\* one request to run-dispersion-prediction, served without being suspended
\* for ever: every await of the handler completes or fails, and the builder
\* runs to its return or its throw
InitRun == InitServe /\ fn = "run-dispersion-prediction"

FairSpecRun == InitRun /\ [][Next \/ NextRun]_vars /\ WF_vars(Next \/ NextRun)

TypeOK ==
  /\ pc \in {"entry", "rise", "loop", "assemble", "returned", "thrown"}
  /\ x \in 0..(MAX_DOWNWIND_DISTANCE_METERS + DISTANCE_STEP_METERS)
  /\ Len(plumePointsRight) = Len(plumePointsLeft)

\* ------------------------------------------------------------------------
\* The helper functions called directly, one call per behaviour
\* ------------------------------------------------------------------------
MaxUnitSpeed == 8

MaxUnitKm == 20

\* wind speeds -1, -0.75, ..., MaxUnitSpeed m/s and the special values
UnitSpeeds ==
  {Dec(i, 4) : i \in -4..(4 * MaxUnitSpeed)} \cup NonFinite \cup {Dec(447, 100), Dec(1, 10), Dec(5, 100)}

\* downwind distances in metres
UnitDistances ==
  {FromInt(1000 * i) : i \in 0..MaxUnitKm}
  \cup {FromInt(-100), Dec(-1, 2), Dec(1, 2), FromInt(1), FromInt(5), FromInt(10), FromInt(50),
        FromInt(100), FromInt(500), PInf}

UnitDiameters == {Zero, Dec(1, 2), FromInt(1), FromInt(5), FromInt(-1), NaN, PInf}

UnitVelocities == {FromInt(-10), Zero, FromInt(10), FromInt(30), NaN, PInf}

UnitKelvins == {Zero, FromInt(-10), Dec(29148, 100), Dec(31148, 100), FromInt(500), NaN, PInf}

UnitBriggsSpeeds == {FromInt(-5), Zero, Dec(1, 10), Dec(447, 100), NaN, PInf, NInf}

UnitBriggsClasses == {"D", "E", "F", "G", ""}

InitUnit ==
  /\ pc = "idle"
  /\ args = BaseArgs
  /\ stabilityClass = ""
  /\ Q = Undef /\ cosWind = Undef /\ sinWind = Undef
  /\ exitTemperatureKelvin = Undef /\ ambientTemperatureKelvin = Undef
  /\ plumeRiseDeltaH = Undef /\ effectiveHeightH = Undef
  /\ x = 0 /\ maxDistanceReached = 0
  /\ plumePointsRight = <<>> /\ plumePointsLeft = <<>>
  /\ sigma = [sigmaY |-> Undef, sigmaZ |-> Undef] /\ concentration = Undef
  /\ ret = <<>> /\ err = ""
  /\ briggsCalls = 0 /\ iterations = 0 /\ loopExit = "none"
  /\ call = NoCall
  /\ done = {} /\ nCalls = 0
  /\ HandlerIdle

CallStability ==
  /\ call = NoCall
  /\ \E w \in UnitSpeeds :
       call' = [fn |-> "estimatePasquillStability", args |-> <<w>>,
                result |-> estimatePasquillStability(w)]
  /\ UNCHANGED <<pc, args, locals, rise, loop, ret, err, outer>>

CallCoefficients ==
  /\ call = NoCall
  /\ \E c \in ClassStrings, d \in UnitDistances :
       call' = [fn |-> "getDispersionCoefficients", args |-> <<c, d>>,
                result |-> getDispersionCoefficients(c, d)]
  /\ UNCHANGED <<pc, args, locals, rise, loop, ret, err, outer>>

CallBriggs ==
  /\ call = NoCall
  /\ \E d \in UnitDiameters, v \in UnitVelocities, te \in UnitKelvins, ta \in UnitKelvins,
        w \in UnitBriggsSpeeds, c \in UnitBriggsClasses :
       call' = [fn |-> "calculateBriggsPlumeRise", args |-> <<d, v, te, ta, w, c>>,
                result |-> calculateBriggsPlumeRise(d, v, te, ta, w, c)]
  /\ UNCHANGED <<pc, args, locals, rise, loop, ret, err, outer>>

\* wind directions 0, 15, ..., 360 degrees and some in between
UnitDirections ==
  {FromInt(15 * i) : i \in 0..24} \cup {Dec(5, 10), Dec(2705, 10), Dec(3599, 10), FromInt(271), FromInt(359)}

\* the expression of line 212, before the conversion to radians
EvalWindAngle ==
  /\ call = NoCall
  /\ \E d \in UnitDirections :
       call' = [fn |-> "windAngleDegrees", args |-> <<d>>, result |-> windAngleDegrees(d)]
  /\ UNCHANGED <<pc, args, locals, rise, loop, ret, err, outer>>

NextUnit == CallStability \/ CallCoefficients \/ CallBriggs \/ EvalWindAngle

SpecUnit == InitUnit /\ [][NextUnit]_vars

\* ------------------------------------------------------------------------
\* Properties
\* ------------------------------------------------------------------------
NonFiniteNumber(a) == a.k \in {"nan", "inf", "ninf"}

One == FromInt(1)

\* C1: whenever calculateGaussianPlumePolygon has returned, the first and the
\* last point of the returned polygon are [longitude, latitude] of the source.
C1_ClosedAtSource ==
  pc = "returned" =>
    /\ Len(ret) >= 2
    /\ ret[1] = <<args.longitude, args.latitude>>
    /\ ret[Len(ret)] = <<args.longitude, args.latitude>>

\* a call that returned a polygon with edge points, for a source off the origin
C1_Witness ==
  /\ pc = "returned"
  /\ Len(ret) > 4
  /\ args.longitude # args.latitude
  /\ ret[Len(ret)] = <<args.longitude, args.latitude>>

\* C2: whenever calculateGaussianPlumePolygon has returned, the polygon has at
\* least 4 points, also when the loop stopped at the first step after x = 0.
C2_AtLeastFourPoints == pc = "returned" => Len(ret) >= 4

\* a call whose loop broke at x = 100, keeping the sample at x = 0 only
C2_Witness ==
  /\ pc = "returned"
  /\ loopExit = "break"
  /\ x = DISTANCE_STEP_METERS
  /\ Len(plumePointsRight) = 1
  /\ Len(ret) = 4

\* C3: estimatePasquillStability maps speed < 2 to A, 2 <= speed < 3 to B,
\* 3 <= speed < 5 to C and every speed >= 5 to D; the boundary values 2, 3,
\* 5, 6 give B, C, D, D.
C3_StabilityIntervals ==
  call.fn = "estimatePasquillStability" =>
    LET w == call.args[1]
        r == call.result
    IN /\ Lt(w, FromInt(2)) => r = "A"
       /\ Ge(w, FromInt(2)) /\ Lt(w, FromInt(3)) => r = "B"
       /\ Ge(w, FromInt(3)) /\ Lt(w, FromInt(5)) => r = "C"
       /\ Ge(w, FromInt(5)) => r = "D"
       /\ w = FromInt(2) => r = "B"
       /\ w = FromInt(3) => r = "C"
       /\ w = FromInt(5) => r = "D"
       /\ w = FromInt(6) => r = "D"

\* the call with the boundary speed 2
C3_Witness ==
  /\ call.fn = "estimatePasquillStability"
  /\ call.args[1] = FromInt(2)
  /\ call.result = "B"

\* C4 (as claimed): once the validation has run, a call with a non-finite
\* plume-rise input has thrown, without a call of calculateBriggsPlumeRise
\* and without a sample.
C4_NonFiniteRejected ==
  (/\ pc # "entry"
   /\ \/ NonFiniteNumber(args.stackDiameter)
      \/ NonFiniteNumber(args.exitVelocity)
      \/ NonFiniteNumber(exitTemperatureKelvin)
      \/ NonFiniteNumber(ambientTemperatureKelvin)
      \/ NonFiniteNumber(args.weather.windSpeed))
  => (pc = "thrown" /\ err # "" /\ briggsCalls = 0 /\ iterations = 0)

\* C5 (as claimed, for finite arguments and positive temperatures): every
\* call of calculateBriggsPlumeRise with exitTemperatureKelvin <=
\* ambientTemperatureKelvin returns exactly 0, whatever the stack diameter,
\* the exit velocity, the wind speed and the stability class.
C5_ZeroWhenNotWarmer ==
  (/\ call.fn = "calculateBriggsPlumeRise"
   /\ \A i \in 1..5 : IsFin(call.args[i])
   /\ Gt(call.args[3], Zero))
  => (Le(call.args[3], call.args[4]) => call.result = Zero)

\* C5 (amended): a call of calculateBriggsPlumeRise with exitTemperatureKelvin
\* <= ambientTemperatureKelvin, exitTemperatureKelvin > 0, exit velocity >= 0
\* and a buoyancy flux that is not NaN returns exactly 0, and the effective
\* height computed from it equals the stack height.
C5_ZeroWhenNotBuoyant ==
  call.fn = "calculateBriggsPlumeRise" =>
    LET d == call.args[1]
        v == call.args[2]
        te == call.args[3]
        ta == call.args[4]
    IN (/\ Le(te, ta) /\ Gt(te, Zero) /\ Ge(v, Zero)
        /\ ~IsNaN(buoyancyFluxF(d, v, te, ta)))
       => /\ call.result = Zero
          /\ \A h \in {FromInt(DEFAULT_STACK_HEIGHT), FromInt(50), Dec(25, 10)} :
               effectiveHeight(h, call.result) = h

\* a cooler exit gas leaving a real stack upwards
C5_Witness ==
  /\ call.fn = "calculateBriggsPlumeRise"
  /\ Lt(call.args[3], call.args[4])
  /\ Gt(call.args[3], Zero)
  /\ Gt(call.args[2], Zero)
  /\ Gt(call.args[1], Zero)
  /\ IsFin(call.args[1]) /\ IsFin(call.args[2])
  /\ call.result = Zero

\* C6: the value returned by calculateBriggsPlumeRise is never negative, and a
\* wind speed of at most 0.1 (0 and negative speeds included) gives the value
\* that the wind speed 0.1 gives.
C6_RiseNotNegative ==
  call.fn = "calculateBriggsPlumeRise" =>
    /\ ~Lt(call.result, Zero)
    /\ Le(call.args[5], Dec(1, 10)) =>
         call.result = calculateBriggsPlumeRise(call.args[1], call.args[2], call.args[3],
                                                call.args[4], Dec(1, 10), call.args[6])

\* a negative wind speed with a positive finite rise
C6_Witness ==
  /\ call.fn = "calculateBriggsPlumeRise"
  /\ Lt(call.args[5], Zero)
  /\ IsFin(call.args[5])
  /\ Gt(call.result, Zero)
  /\ IsFin(call.result)

\* C7: for every class string and every distance x >= 0,
\* getDispersionCoefficients returns sigmaY >= 1 and sigmaZ >= 1, and for
\* x <= 0 it returns exactly (1, 1).
C7_SigmaFloors ==
  call.fn = "getDispersionCoefficients" =>
    LET d == call.args[2]
        r == call.result
    IN /\ Ge(d, Zero) => (Ge(r.sigmaY, One) /\ Ge(r.sigmaZ, One))
       /\ Le(d, Zero) => (r.sigmaY = One /\ r.sigmaZ = One)

\* a distance of 1 m, where the power law gives less than 1 m, for an
\* unrecognised class
C7_Witness ==
  /\ call.fn = "getDispersionCoefficients"
  /\ call.args[1] = "G"
  /\ call.args[2] = One
  /\ call.result.sigmaY = One

\* C8 (as claimed): the loop terminates, x grows by 100 per iteration, no
\* sample is taken beyond 20000 m, and the body runs at most 200 times.
C8_AtMost200Iterations ==
  /\ [](iterations <= 200)
  /\ [][iterations' # iterations =>
          (iterations' = iterations + 1 /\ x <= 20000 /\ (pc' = "loop" => x' = x + 100))]_vars
  /\ (pc = "loop") ~> (pc # "loop")

\* C8 (amended): the loop terminates, x grows by 100 per iteration, no sample
\* is taken beyond 20000 m, and the body runs at most 201 times.
C8_AtMost201Iterations ==
  /\ [](iterations <= 201)
  /\ [][iterations' # iterations =>
          (iterations' = iterations + 1 /\ x <= 20000 /\ (pc' = "loop" => x' = x + 100))]_vars
  /\ (pc = "loop") ~> (pc # "loop")

\* a call whose loop ran over every distance 0, 100, ..., 20000
C8_Witness ==
  /\ pc = "returned"
  /\ loopExit = "bound"
  /\ iterations = 201

\* C9: when the loop has ended, maxDistanceReached is the distance of the last
\* retained sample; after a break at x it is x - 100, x is the first distance
\* above 0 whose concentration is below the threshold and its sample is not
\* retained; without a break it is 20000, the sample at 20000 is retained and
\* no distance above 0 has a concentration below the threshold.
C9_ExtentIsLastSample ==
  pc = "assemble" =>
    LET n == Len(plumePointsRight)
        below(xx) == Lt(sampleConcentration(stabilityClass, Q, args.weather.windSpeed,
                                            effectiveHeightH, xx), CONCENTRATION_THRESHOLD)
    IN /\ n >= 1
       /\ plumePointsRight[n].x = FromInt(maxDistanceReached)
       /\ plumePointsLeft[n].x = FromInt(maxDistanceReached)
       /\ loopExit = "break" =>
            /\ x > 0
            /\ maxDistanceReached = x - 100
            /\ \A i \in 1..n : plumePointsRight[i].x # FromInt(x)
            /\ below(x)
            /\ \A j \in 1..(n - 1) : ~below(100 * j)
       /\ loopExit = "bound" =>
            /\ maxDistanceReached = 20000
            /\ plumePointsRight[n].x = FromInt(20000)
            /\ \A j \in 1..200 : ~below(100 * j)

\* a loop ended by a break beyond the first step
C9_Witness ==
  /\ pc = "assemble"
  /\ loopExit = "break"
  /\ maxDistanceReached >= 1000
  /\ maxDistanceReached = x - 100

\* C10: the returned polygon is the source, one point per retained sample at
\* the local offset (x, +3 sigmaY) in increasing x, one point per retained
\* sample at (x, -3 sigmaY) in decreasing x, and the source again; both edges
\* have the same number of points and their i-th points share the same x.
C10_PolygonOrder ==
  pc = "returned" =>
    LET n == Len(plumePointsRight)
        src == <<args.longitude, args.latitude>>
        half(xx) == Mul(getDispersionCoefficients(stabilityClass, FromInt(xx)).sigmaY, FromInt(3))
        at(xx, yy) == projectPoint([x |-> FromInt(xx), y |-> yy], cosWind, sinWind,
                                   args.latitude, args.longitude)
    IN /\ Len(plumePointsLeft) = n
       /\ \A i \in 1..n : plumePointsLeft[i].x = plumePointsRight[i].x
       /\ Len(ret) = 2 * n + 2
       /\ ret[1] = src
       /\ ret[2 * n + 2] = src
       /\ \A i \in 1..n :
            /\ ret[1 + i] = at(100 * (i - 1), half(100 * (i - 1)))
            /\ ret[1 + n + i] = at(100 * (n - i), Neg(half(100 * (n - i))))

\* a returned polygon with several samples on each edge
C10_Witness ==
  /\ pc = "returned"
  /\ Len(plumePointsRight) >= 3
  /\ Len(ret) = 2 * Len(plumePointsRight) + 2
  /\ ret[2] # ret[Len(ret) - 1]

\* the arguments without the fields named in C16
readFields(a) ==
  [latitude |-> a.latitude, longitude |-> a.longitude,
   windSpeed |-> a.weather.windSpeed, windDirection |-> a.weather.windDirection,
   temperature |-> a.weather.temperature, volatility_level |-> a.chemical.volatility_level,
   stackHeight |-> a.stackHeight, stackDiameter |-> a.stackDiameter,
   exitVelocity |-> a.exitVelocity, exitTempOffset |-> a.exitTempOffset]

C16_UnusedFieldsIgnored ==
  pc \in {"returned", "thrown"} =>
    \A d \in done :
      readFields(d.args) = readFields(args) =>
        (d.ret = ret /\ d.err = err /\ d.thrown = (pc = "thrown"))

\* two calls that returned and differ in the solubility level
C16_Witness ==
  /\ pc = "returned"
  /\ \E d \in done :
       /\ readFields(d.args) = readFields(args)
       /\ d.args.chemical.solubility_level # args.chemical.solubility_level
       /\ d.args.weather.humidity # args.weather.humidity
       /\ d.ret = ret
       /\ Len(ret) > 4

\* C20 (as claimed, for a finite volatility level): once Q is computed it
\* equals volatility_level * max(1, stackHeight / 10) * max(1, stackDiameter).
C20_EmissionRateFormula ==
  (pc \in {"rise", "loop", "assemble", "returned"} /\ IsFin(args.chemical.volatility_level)) =>
    Q = Mul(args.chemical.volatility_level,
            Mul(Max(FromInt(1), Div(args.stackHeight, FromInt(10))), Max(FromInt(1), args.stackDiameter)))

\* ------------------------------------------------------------------------
\* The serve handlers: properties
\* ------------------------------------------------------------------------
\* the handler has done the named thing while serving the present request
did(name) == \E i \in 1..Len(effects) : effects[i] = name

\* the value is missing or is not a number
notANumber(val) == val.t # "number" \/ IsNaN(val.v)

\* C12 (as claimed, for a parsable body and a configured function): a request
\* to run-dispersion-prediction whose latitude, longitude or chemical_id is
\* missing or not a number never reaches the chemical lookup, the weather
\* fetch or the polygon computation, and is answered with status 400.
C12_InvalidParametersRejected ==
  (/\ fn = "run-dispersion-prediction" /\ req.method # "OPTIONS" /\ envSet /\ req.body.json
   /\ (notANumber(req.body.latitude) \/ notANumber(req.body.longitude) \/ notANumber(req.body.chemical_id)))
  => /\ ~did("db") /\ ~did("weather") /\ ~did("polygon")
     /\ hpc = "responded" => resp.status = 400

\* the steps of run-dispersion-prediction, in the order of the source
RunSteps == <<"env", "body", "db", "weather", "convert", "polygon">>

\* C13: run-dispersion-prediction validates, looks the chemical up, fetches
\* the weather, converts the wind speed and computes the polygon in this
\* order; the weather is fetched only after a lookup that gave a row; a lookup
\* that gave no row is answered with 500 without a weather fetch; a weather
\* response that is not 2xx is answered with 500 without a polygon.
C13_StepsInOrder ==
  fn = "run-dispersion-prediction" =>
    /\ Len(effects) <= Len(RunSteps) /\ effects = SubSeq(RunSteps, 1, Len(effects))
    /\ did("weather") => chemicalRow # None
    /\ (did("db") /\ chemicalRow = None) =>
         (hpc = "responded" /\ resp.status = 500 /\ ~did("weather") /\ pc = "idle")
    /\ (did("weather") /\ upstream.t = "answer" /\ ~(upstream.status \in 200..299)) =>
         (hpc = "responded" /\ resp.status = 500 /\ ~did("polygon") /\ pc = "idle")
    /\ pc # "idle" => did("polygon")

\* a request whose chemical lookup gave no row, answered with 500 without
\* a weather fetch, after a request answered with a prediction
C13_Witness ==
  /\ fn = "run-dispersion-prediction" /\ hpc = "responded"
  /\ did("db") /\ chemicalRow = None /\ resp.status = 500 /\ effects = SubSeq(RunSteps, 1, 3)
  /\ served # {}

\* C14: whenever the handler has called the builder, the wind speed of the
\* call is the wind speed of the weather service times 0.44704, the
\* conversion came before the call, and the weather of a 200 response carries
\* the same converted wind speed.
C14_WindSpeedConvertedOnce ==
  (fn = "run-dispersion-prediction" /\ pc # "idle") =>
    /\ args.weather.windSpeed = Mul(upstream.json.windSpeed, Dec(44704, 100000))
    /\ \E i, j \in 1..Len(effects) : i < j /\ effects[i] = "convert" /\ effects[j] = "polygon"
    /\ (hpc = "responded" /\ resp.kind = "prediction") =>
         (resp.status = 200 /\ resp.body.properties.weather.windSpeed = args.weather.windSpeed)

\* a prediction for a wind of 10 mph, computed with 4.4704 m/s
C14_Witness ==
  /\ fn = "run-dispersion-prediction" /\ hpc = "responded" /\ resp.kind = "prediction"
  /\ upstream.json.windSpeed = FromInt(10)
  /\ args.weather.windSpeed = Mul(FromInt(10), Dec(44704, 100000))
  /\ resp.body.properties.weather.windSpeed = Mul(FromInt(10), Dec(44704, 100000))
  /\ Len(resp.body.geometry.coordinates[1]) > 4

\* the request fields two requests must share to be compared
sameButStack(d) ==
  /\ d.latitude = req.body.latitude /\ d.longitude = req.body.longitude
  /\ d.chemical_id = req.body.chemical_id
  /\ d.chemical = chemicalRow /\ d.observation = upstream.json

presentStack ==
  <<req.body.stackHeight, req.body.stackDiameter, req.body.exitVelocity, req.body.exitTemperatureOffset>>

missingOrNaN(val) == val.t = "undefined" \/ IsNaN(ToNumber(val))

\* C17: in get-weather-data, without the API key the response is 500 and
\* neither the body nor OpenWeatherMap is read; with the key, a missing or
\* NaN lat or lon gives 400 and no call of OpenWeatherMap; with valid
\* parameters an answer that is not 2xx gives 500 and a 2xx answer gives 200
\* with the weather JSON.
C17_WeatherErrorOrder ==
  (fn = "get-weather-data" /\ req.method # "OPTIONS") =>
    /\ ~envSet => (~did("body") /\ ~did("owm") /\ (hpc = "responded" => resp.status = 500))
    /\ (envSet /\ req.body.json /\ (missingOrNaN(req.body.lat) \/ missingOrNaN(req.body.lon))) =>
         (~did("owm") /\ (hpc = "responded" => resp.status = 400))
    /\ (envSet /\ req.body.json /\ ~missingOrNaN(req.body.lat) /\ ~missingOrNaN(req.body.lon)
        /\ hpc = "responded" /\ upstream.t = "answer") =>
         IF upstream.status \in 200..299
         THEN /\ resp.status = 200 /\ resp.kind = "weather"
              /\ DOMAIN resp.body = {"windSpeed", "windDirection", "temperature", "humidity", "timestamp"}
         ELSE resp.status = 500

\* a request without lon, rejected with 400 before any call of OpenWeatherMap
C17_Witness ==
  /\ fn = "get-weather-data" /\ req.method # "OPTIONS" /\ envSet /\ req.body.json
  /\ req.body.lon.t = "undefined" /\ req.body.lat.t = "number"
  /\ hpc = "responded" /\ resp.status = 400 /\ effects = <<"env", "body">>

\* C18: every response of get-weather-data and run-dispersion-prediction
\* carries the CORS headers, and an OPTIONS request is answered without
\* reading the environment, the body, the database or an upstream service.
C18_CorsOnEveryResponse ==
  fn \in {"get-weather-data", "run-dispersion-prediction"} =>
    /\ hpc = "responded" => (resp.cors /\ resp.status \in {200, 400, 500})
    /\ req.method = "OPTIONS" =>
         /\ effects = <<>> /\ pc = "idle"
         /\ chemicalRow = None /\ upstream = None
         /\ hpc \in {"start", "responded"}
         /\ hpc = "responded" => resp = [t |-> "response", status |-> 200, cors |-> TRUE, kind |-> "ok", body |-> "ok"]

\* a preflight answered after a request that failed with 500 and CORS headers
C18_Witness ==
  /\ fn = "run-dispersion-prediction" /\ req.method = "OPTIONS"
  /\ hpc = "responded" /\ resp.cors /\ effects = <<>>
  /\ nRequests = 2

C21_AngleInZeroTo360 ==
  (call.fn = "windAngleDegrees" /\ Ge(call.args[1], Zero) /\ Le(call.args[1], FromInt(360))) =>
    /\ Ge(call.result, Zero) /\ Lt(call.result, FromInt(360))
    /\ call.result = IF Le(call.args[1], FromInt(270)) THEN Sub(FromInt(270), call.args[1])
                     ELSE Sub(FromInt(630), call.args[1])

\* C21 (amended): for a wind direction in 0..360 the rotation angle in
\* degrees is the remainder of 270 - windDirection with the sign of the
\* dividend: 270 - windDirection itself, in [0, 270] for a direction up to
\* 270 and in [-90, 0) for a direction above 270, where it is 360 less than
\* the mathematical modulus.
C21_AngleIsSignedRemainder ==
  (call.fn = "windAngleDegrees" /\ Ge(call.args[1], Zero) /\ Le(call.args[1], FromInt(360))) =>
    /\ call.result = Sub(FromInt(270), call.args[1])
    /\ Le(call.args[1], FromInt(270)) => (Ge(call.result, Zero) /\ Le(call.result, FromInt(270)))
    /\ Gt(call.args[1], FromInt(270)) =>
         /\ Ge(call.result, FromInt(-90)) /\ Lt(call.result, Zero)
         /\ Add(call.result, FromInt(360)) = Sub(FromInt(630), call.args[1])

\* the wind direction 300, whose angle is -30
C21_Witness ==
  /\ call.fn = "windAngleDegrees"
  /\ call.args[1] = FromInt(300)
  /\ call.result = FromInt(-30)

\* the buoyancy flux of the present call of calculateGaussianPlumePolygon
presentFlux ==
  buoyancyFluxF(args.stackDiameter, args.exitVelocity, exitTemperatureKelvin, ambientTemperatureKelvin)

\* C22: for wind speed 4.47 m/s, wind direction 270, 65 F, volatility 8, the
\* default stack parameters and the source (39.8283, -98.5795), the class is
\* C, the buoyancy flux is positive and below 55, the plume rise is the one
\* of the small-flux unstable formula, and the polygon has more than 4 points
\* and starts and ends at (-98.5795, 39.8283).
C22_ReferenceScenario ==
  (/\ args.weather.windSpeed = Dec(447, 100) /\ args.weather.windDirection = FromInt(270)
   /\ args.weather.temperature = FromInt(65) /\ args.chemical.volatility_level = FromInt(8)
   /\ args.stackHeight = FromInt(10) /\ args.stackDiameter = FromInt(1)
   /\ args.exitVelocity = FromInt(10) /\ args.exitTempOffset = FromInt(20)
   /\ args.latitude = Dec(398283, 10000) /\ args.longitude = Dec(-985795, 10000))
  => /\ pc \in {"rise", "loop", "assemble", "returned"} =>
          (stabilityClass = "C" /\ Gt(presentFlux, Zero) /\ Lt(presentFlux, FromInt(55)))
     /\ pc \in {"loop", "assemble", "returned"} =>
          plumeRiseDeltaH = Mul(Div(Mul(Dec(21425, 1000), Pow(presentFlux, Div(FromInt(3), FromInt(4)))),
                                    Dec(447, 100)),
                                Dec(15, 10))
     /\ pc # "thrown"
     /\ pc = "returned" =>
          /\ Len(ret) > 4
          /\ ret[1] = <<Dec(-985795, 10000), Dec(398283, 10000)>>
          /\ ret[Len(ret)] = <<Dec(-985795, 10000), Dec(398283, 10000)>>

\* the scenario has returned its polygon
C22_Witness ==
  /\ pc = "returned"
  /\ args = BaseArgs
  /\ stabilityClass = "C"
  /\ Gt(plumeRiseDeltaH, Zero)
  /\ Len(ret) > 4

\* C23: estimatePasquillStability returns neither E nor F for any wind
\* speed, and in every call of calculateBriggsPlumeRise made by
\* calculateGaussianPlumePolygon the branch for stable conditions is not
\* executed: the flux is not positive or the class is at most D.
C23_StableBranchNeverTaken ==
  /\ \A w \in UnitSpeeds : estimatePasquillStability(w) \in {"A", "B", "C", "D"}
  /\ pc \in {"rise", "loop", "assemble", "returned"} => stabilityClass \in {"A", "B", "C", "D"}
  /\ briggsCalls > 0 => (Le(presentFlux, Zero) \/ StrLe(stabilityClass, "D"))

\* a call with a positive flux in calm wind, risen by the unstable formula
C23_Witness ==
  /\ briggsCalls = 1
  /\ Gt(presentFlux, Zero)
  /\ Lt(args.weather.windSpeed, FromInt(2))
  /\ stabilityClass = "A"
  /\ Gt(plumeRiseDeltaH, Zero)

\* the first character of the class string is outside A..F
outsideAToF(c) == ClassCodes[c] = <<>> \/ ClassCodes[c][1] < 65 \/ ClassCodes[c][1] > 70

\* C24: for a class string whose first character is outside A..F and a
\* distance x > 0, getDispersionCoefficients returns what it returns for
\* class D at the same distance.
C24_UnknownClassAsD ==
  (call.fn = "getDispersionCoefficients" /\ outsideAToF(call.args[1]) /\ Gt(call.args[2], Zero)) =>
    call.result = getDispersionCoefficients("D", call.args[2])

\* class G at 1000 m: the coefficients of class D, which are not those of
\* class F
C24_Witness ==
  /\ call.fn = "getDispersionCoefficients"
  /\ call.args[1] = "G"
  /\ call.args[2] = FromInt(1000)
  /\ call.result = [sigmaY |-> Mul(Dec(8, 100), FromInt(1000)), sigmaZ |-> Mul(Dec(6, 100), FromInt(1000))]
  /\ call.result # getDispersionCoefficients("F", FromInt(1000))

\* C25: no step of calculateGaussianPlumePolygon changes a field of the
\* weather observation or of the chemical record it was called with, so both
\* records are the same after the return or the throw as before the call.
C25_RecordsNotModified ==
  [][args'.weather = args.weather /\ args'.chemical = args.chemical]_vars

\* a call with a wind speed below the floor of 0.1 has returned, its weather
\* record still carrying that wind speed
C25_Witness ==
  /\ pc = "returned"
  /\ Lt(args.weather.windSpeed, Dec(1, 10))
  /\ iterations > 1

\* the request to run-dispersion-prediction has failed
runFailed ==
  \/ ~envSet
  \/ ~req.body.json
  \/ did("db") /\ chemicalRow = None
  \/ did("weather") /\ ~ok(upstream)
  \/ pc = "thrown"

\* C26: a request to run-dispersion-prediction other than OPTIONS is
\* eventually answered; the response, once given, is not replaced; its status
\* is 200, 400 or 500; it carries a geometry only with status 200; and a
\* request that failed is answered with status 500 and no geometry.
C26_OneResponsePerRequest ==
  /\ []((fn = "run-dispersion-prediction" /\ req.method # "OPTIONS") =>
         /\ hpc # "responded" => resp = None
         /\ hpc = "responded" =>
              /\ resp.status \in {200, 400, 500}
              /\ resp.kind = "prediction" => (resp.status = 200 /\ ~runFailed)
              /\ resp.kind # "prediction" => (resp.kind = "error" /\ resp.status \in {400, 500})
              /\ runFailed => (resp.status = 500 /\ resp.kind = "error"))
  /\ [][resp # None => resp' = resp]_vars
  /\ (fn = "run-dispersion-prediction" /\ req.method # "OPTIONS" /\ hpc = "start") ~> (hpc = "responded")

\* a request whose weather observation has no wind speed: the builder has
\* thrown and the response is 500 without geometry
C26_Witness ==
  /\ fn = "run-dispersion-prediction" /\ hpc = "responded"
  /\ pc = "thrown" /\ did("polygon")
  /\ resp.status = 500 /\ resp.kind = "error"

\* the number of samples retained so far
retained == Len(plumePointsRight)

\* C27: the retained samples are the distances 0, 100, ..., extent without a
\* gap; the sample at 0 is retained whatever its concentration; after the
\* break no further distance is sampled; and the returned polygon has
\* 2n + 2 points for n retained samples, 1 <= n <= 201.
C27_RetainedSamplesContiguous ==
  /\ Len(plumePointsLeft) = retained
  /\ \A i \in 1..retained :
       /\ plumePointsRight[i].x = FromInt(100 * (i - 1))
       /\ plumePointsLeft[i].x = FromInt(100 * (i - 1))
  /\ iterations >= 1 => retained >= 1
  /\ pc \in {"assemble", "returned"} =>
       /\ retained >= 1 /\ retained <= 201
       /\ maxDistanceReached = 100 * (retained - 1)
       /\ loopExit = "break" => (iterations = retained + 1 /\ x = 100 * retained)
       /\ loopExit = "bound" => (iterations = retained /\ retained = 201)
  /\ pc = "returned" => Len(ret) = 2 * retained + 2

\* a call that stopped at a sample below the threshold although a later
\* distance is above it, and whose sample at 0, below the threshold too, was
\* retained
C27_Witness ==
  /\ pc = "returned" /\ loopExit = "break"
  /\ Lt(sampleConcentration(stabilityClass, Q, args.weather.windSpeed, effectiveHeightH, 0),
        CONCENTRATION_THRESHOLD)
  /\ \E k \in 1..20 :
       /\ loopCondition(x + 100 * k)
       /\ Ge(sampleConcentration(stabilityClass, Q, args.weather.windSpeed, effectiveHeightH, x + 100 * k),
             CONCENTRATION_THRESHOLD)
  /\ Len(ret) = 2 * retained + 2

\* C28: the assembled point list has at least 4 points whenever the
\* plume-rise validation was passed, so the returned polygon is the
\* assembled list and never the fallback quadrilateral.
C28_FallbackUnreachable ==
  /\ pc = "assemble" =>
       Len(assemblePoints(plumePointsRight, plumePointsLeft, cosWind, sinWind,
                          args.latitude, args.longitude)) >= 4
  /\ pc = "returned" =>
       ret = assemblePoints(plumePointsRight, plumePointsLeft, cosWind, sinWind,
                            args.latitude, args.longitude)

\* the shortest plume: the loop broke at its second sample, the sample at 0
\* alone was retained, and the assembled list of exactly 4 points was returned
C28_Witness ==
  /\ pc = "returned"
  /\ loopExit = "break" /\ iterations = 2
  /\ retained = 1
  /\ Len(assemblePoints(plumePointsRight, plumePointsLeft, cosWind, sinWind,
                        args.latitude, args.longitude)) = 4
  /\ ret[2] = projectPoint(plumePointsRight[1], cosWind, sinWind, args.latitude, args.longitude)

\* the coordinates of the element can be determined: it has its own lat and
\* lon, or a center
determinable(element) ==
  (element.lat.t = "number" /\ element.lon.t = "number") \/ element.center.t = "object"

\* C29 (as claimed): the list answered by get-hazard-sites has one site for
\* every element of the Overpass answer whose coordinates can be determined,
\* in the order of the answer, with the element's own coordinates or else
\* those of its center, and no site for the other elements.
C29_SitesForDeterminableElements ==
  (fn = "get-hazard-sites" /\ hpc = "responded" /\ ok(upstream)) =>
    LET expected == SelectSeq(upstream.json.elements, determinable)
    IN /\ resp.status = 200
       /\ Len(resp.body) = Len(expected)
       /\ \A i \in 1..Len(expected) :
            /\ resp.body[i].id = expected[i].id
            /\ resp.body[i].latitude = IF expected[i].lat.t = "number" THEN expected[i].lat ELSE expected[i].center.lat
            /\ resp.body[i].longitude = IF expected[i].lon.t = "number" THEN expected[i].lon ELSE expected[i].center.lon

====
